---------------------------- MODULE Spec2Model ----------------------------
(***************************************************************************)
(* KMF remote input sharing (KarxiS/pv281-rust, "Remote desktop linux").   *)
(*                                                                         *)
(* The module holds four specifications over one set of variables:         *)
(*   Spec       the master service and its driver loop (cursor state       *)
(*              machine, grab/ungrab of the physical devices, failsafe);   *)
(*   SpecNet    the master fan-out: accept loop, broadcast hub and the     *)
(*              per-client handlers;                                       *)
(*   SpecFrame  receive() on a byte stream that arrives in pieces;         *)
(*   SpecCodec  the packet codec and the action pipeline as functions.     *)
(* A specification leaves the variables of the other parts at their        *)
(* initial values.                                                         *)
(*                                                                         *)
(* Modelling decisions.                                                    *)
(*  - i32 cursor arithmetic is modelled on the integers; the calibration   *)
(*    cursor (which the code leaves unbounded above) is capped by MaxX and *)
(*    MaxY in the guard of HandleEvent, so the i32 range is never reached. *)
(*  - grab()/ungrab() of a device are system calls that may fail; a call   *)
(*    of grab_inputs/ungrab_inputs is resolved by the number k of devices  *)
(*    it handled before the first failure (k = number of devices: Ok).     *)
(*  - The service is started once per lifetime of the model (Start is      *)
(*    enabled while no driver loop was spawned yet).                       *)
(***************************************************************************)
EXTENDS Integers, Sequences, FiniteSets, TLC

\* ------------------------------------------------------------------ bounds
\* Cap of the calibration cursor (the code has no upper bound in Calibration).
MaxX == 2
MaxY == 1
\* Largest batch one read_events() call returns.
MaxBatch == 1
\* Connections the accept loop takes, and messages offered to the hub.
MaxClients == 2
MaxPublished == 1
\* Frames in a stream; length of the texts and payloads of the codec inputs.
MaxFrames == 2
MaxText == 1
MaxRestarts == 2

\* ------------------------------------------------------- program constants
FAILSAFE_KEY_CTRL == 29
FAILSAFE_KEY_ALT == 56
FAILSAFE_KEY_Q == 16
CALIBRATION_KEY == 46
DefaultWidth == 1920
DefaultHeight == 1080
\* init_driver opens at most a keyboard and a mouse.
MaxDevices == 2
\* broadcast::channel::<ServerMessage>(100)
HubCapacity == 100
\* config.rs, protocol_structure
PACKET_TYPE_SIZE == 1
ERROR_CODE_SIZE == 1
LENGTH_PREFIX_SIZE == 4
MIN_ERROR_PACKET_SIZE == PACKET_TYPE_SIZE + ERROR_CODE_SIZE + LENGTH_PREFIX_SIZE
ERROR_CODE_OFFSET == PACKET_TYPE_SIZE
ERROR_LENGTH_OFFSET == PACKET_TYPE_SIZE + ERROR_CODE_SIZE
PAYLOAD_LENGTH_OFFSET == PACKET_TYPE_SIZE

VARIABLES
    \* MasterService
    running,        \* Arc<AtomicBool> shared by the service and its loops
    status,         \* MasterStatus (behind its mutex)
    \* driver loop task
    drv_pc,         \* "none" (not spawned), "check" (while head), "batch", "done"
    batch_left,     \* events of the current batch not yet handled
    num_devices,    \* devices of the DeviceReader
    dev_grabbed,    \* devices the kernel holds grabbed for the reader
    ctx,            \* DriverLoopContext
    out,            \* what the last handled event did: publication / local replay
    \* history
    failsafe_fired, \* the failsafe branch of handle_event was taken
    crossings,      \* parity of the boundary crossings since calibration
    \* network loop, broadcast hub and per-client handler tasks
    net_pc,         \* "none", "bind", "head" (while head), "accept", "done"
    tx_open,        \* MasterService.tx is Some(sender)
    hub,            \* messages the broadcast channel accepted, oldest first
    conn,           \* per connection: handler position, receiver, stop channel
    clients,        \* Vec<ConnectedClientInfo>
    stoppers,       \* keys of the client_stoppers map
    \* protocol parts
    fr,             \* a byte stream and the receive() reading it
    cd,             \* input and results of the codec functions
    \* service calls and their callers
    api,            \* the result of the last send_file call
    mark,           \* history: packets a handler had written when disconnect_client signalled it
    orphans,        \* the loops of earlier start() calls that are still running
    slave,          \* SlaveService::run_client_internal of a peer
    wire,           \* one connection of the master, packet by packet
    svc             \* SlaveService: its flag, its status and its task

driverVars == <<drv_pc, batch_left, num_devices, dev_grabbed, ctx, out,
                failsafe_fired, crossings>>
serviceVars == <<running, status>>
netVars == <<net_pc, tx_open, hub, conn, clients, stoppers>>
extVars == <<api, mark, orphans, slave, wire, svc>>
protoVars == <<fr, cd, extVars>>
vars == <<running, status, drv_pc, batch_left, num_devices, dev_grabbed, ctx, out,
          failsafe_fired, crossings, net_pc, tx_open, hub, conn, clients, stoppers,
          fr, cd, api, mark, orphans, slave, wire, svc>>

\* ----------------------------------------------------------------- helpers
Max(a, b) == IF a >= b THEN a ELSE b
Min(a, b) == IF a <= b THEN a ELSE b
\* i32::clamp(lo, hi); the callers keep lo <= hi
Clamp(v, lo, hi) == Max(lo, Min(v, hi))

\* ------------------------------------------------------------------ events
Keys == {FAILSAFE_KEY_Q, FAILSAFE_KEY_CTRL, FAILSAFE_KEY_ALT, CALIBRATION_KEY}
Buttons == {"Left", "Right", "Middle"}
BigDelta == 2 * MaxX + 3
Moves == {<<-BigDelta, 0, 0>>, <<-1, 0, 1>>, <<1, 0, 0>>, <<2, 1, 0>>,
          <<BigDelta, 0, 0>>, <<0, -BigDelta, 0>>}

MouseMoveEvents == {[type |-> "MouseMove", x |-> m[1], y |-> m[2], wheel |-> m[3]] : m \in Moves}
MouseClickEvents == [type : {"MouseClick"}, button : Buttons, pressed : BOOLEAN]
KeyboardPressEvents == [type : {"KeyboardPress"}, key : Keys, pressed : BOOLEAN]
DriverEvents == MouseMoveEvents \cup MouseClickEvents \cup KeyboardPressEvents

NoOut == [kind |-> "none", type |-> "none", faithful |-> TRUE]

\* ------------------------------------------------------------ MasterStatus
StatusDefault ==
    [running |-> FALSE, calibration_mode |-> TRUE, cursor_x |-> 0, cursor_y |-> 0,
     master_width |-> DefaultWidth, master_height |-> DefaultHeight, remote_mode |-> FALSE]

StatusReset(s) ==
    [s EXCEPT !.running = TRUE, !.calibration_mode = TRUE, !.remote_mode = FALSE,
              !.cursor_x = 0, !.cursor_y = 0,
              !.master_width = DefaultWidth, !.master_height = DefaultHeight]

\* DriverLoopContext::update_status
UpdateStatus(s, c) ==
    [s EXCEPT !.running = TRUE, !.calibration_mode = c.calibration_mode,
              !.cursor_x = c.cursor_x, !.cursor_y = c.cursor_y,
              !.master_width = c.master_width, !.master_height = c.master_height,
              !.remote_mode = c.remote_mode]

\* ------------------------------------------------------- DriverLoopContext
CtxNew(width, height) ==
    [cursor_x |-> 0, cursor_y |-> 0, remote_mode |-> FALSE, calibration_mode |-> TRUE,
     master_width |-> width, master_height |-> height, inputs_grabbed |-> FALSE,
     pressed_keys |-> {}]

\* DriverReader::grab_inputs: `for d in devices { d.grab()?; }`.  k devices are
\* grabbed before the first failure; the call is Ok iff k = n.
GrabInputs(devs, k) == devs \cup (1..k)
\* DriverReader::ungrab_inputs: `for d in devices { d.ungrab()?; }`.
UngrabInputs(devs, k) == devs \ (1..k)
\* impl Drop for DriverReader: `let _ = self.devices.iter_mut().map(S::ungrab_device);`
\* builds a lazy iterator adaptor and drops it unconsumed: no device is ungrabbed.
DropReader(devs) == devs

\* (mutant of SwitchMode) the mode flag follows the grab flag: it changes only
\* when the grab or ungrab call succeeded
SwitchModeOnlyOnSuccess(c, devs, n, new_remote, k) ==
    IF new_remote
    THEN IF ~c.inputs_grabbed
         THEN [ctx |-> [c EXCEPT !.inputs_grabbed = (k = n), !.remote_mode = (k = n)],
               devs |-> GrabInputs(devs, k)]
         ELSE [ctx |-> [c EXCEPT !.remote_mode = TRUE], devs |-> devs]
    ELSE IF c.inputs_grabbed
         THEN [ctx |-> [c EXCEPT !.inputs_grabbed = ~(k = n), !.remote_mode = ~(k = n)],
               devs |-> UngrabInputs(devs, k)]
         ELSE [ctx |-> [c EXCEPT !.remote_mode = FALSE], devs |-> devs]

\* (mutant of SwitchMode) the grab flag follows the mode whatever the call returned
SwitchModeFlagAlways(c, devs, n, new_remote, k) ==
    LET c1 == [c EXCEPT !.remote_mode = new_remote] IN
    IF new_remote
    THEN IF ~c1.inputs_grabbed
         THEN [ctx |-> [c1 EXCEPT !.inputs_grabbed = TRUE], devs |-> GrabInputs(devs, k)]
         ELSE [ctx |-> c1, devs |-> devs]
    ELSE IF c1.inputs_grabbed
         THEN [ctx |-> [c1 EXCEPT !.inputs_grabbed = FALSE], devs |-> UngrabInputs(devs, k)]
         ELSE [ctx |-> c1, devs |-> devs]

\* (mutant of SwitchMode) leaving Remote keeps the devices grabbed
SwitchModeKeepGrab(c, devs, n, new_remote, k) ==
    LET c1 == [c EXCEPT !.remote_mode = new_remote] IN
    IF new_remote /\ ~c1.inputs_grabbed
    THEN [ctx |-> [c1 EXCEPT !.inputs_grabbed = (k = n)], devs |-> GrabInputs(devs, k)]
    ELSE [ctx |-> c1, devs |-> devs]

\* DriverLoopContext::switch_mode; the result is [ctx, devs]
SwitchMode(c, devs, n, new_remote, k) ==
    LET c1 == [c EXCEPT !.remote_mode = new_remote] IN
    IF new_remote
    THEN IF ~c1.inputs_grabbed
         THEN [ctx |-> [c1 EXCEPT !.inputs_grabbed = (k = n)],
               devs |-> GrabInputs(devs, k)]
         ELSE [ctx |-> c1, devs |-> devs]
    ELSE IF c1.inputs_grabbed
         THEN [ctx |-> [c1 EXCEPT !.inputs_grabbed = ~(k = n)],
               devs |-> UngrabInputs(devs, k)]
         ELSE [ctx |-> c1, devs |-> devs]

\* (mutant of ClampCursor) the clamp takes total_width, not total_width - 1
ClampCursorOffByOne(c, mm) ==
    LET total_width == c.master_width * 2 IN
    [c EXCEPT !.cursor_x = Clamp(c.cursor_x + mm.x, 0, total_width),
              !.cursor_y = Clamp(c.cursor_y + mm.y, 0, c.master_height)]

\* handle_mouse_move, the clamp of lines 101-103
ClampCursor(c, mm) ==
    LET total_width == c.master_width * 2 IN
    [c EXCEPT !.cursor_x = Clamp(c.cursor_x + mm.x, 0, total_width - 1),
              !.cursor_y = Clamp(c.cursor_y + mm.y, 0, c.master_height - 1)]

\* (mutant of NewRemoteMode) the boundary column still belongs to the master
NewRemoteModeStrict(c) == c.cursor_x > c.master_width

\* handle_mouse_move, line 106
NewRemoteMode(c) == c.cursor_x >= c.master_width

\* ------------------------------------------------------- bytes and text
\* A byte is a number in 0..255; a String or a Vec<u8> is a sequence of bytes.
\* The text literals of the program, as their UTF-8 bytes:
S ==
    [left |-> <<108, 101, 102, 116>>,
     right |-> <<114, 105, 103, 104, 116>>,
     middle |-> <<109, 105, 100, 100, 108, 101>>,
     MouseMove |-> <<77, 111, 117, 115, 101, 77, 111, 118, 101>>,
     MouseClick |-> <<77, 111, 117, 115, 101, 67, 108, 105, 99, 107>>,
     KeyPress |-> <<75, 101, 121, 80, 114, 101, 115, 115>>,
     x |-> <<120>>,
     y |-> <<121>>,
     wheel |-> <<119, 104, 101, 101, 108>>,
     button |-> <<98, 117, 116, 116, 111, 110>>,
     pressed |-> <<112, 114, 101, 115, 115, 101, 100>>,
     key |-> <<107, 101, 121>>,
     version |-> <<118, 101, 114, 115, 105, 111, 110>>,
     screen_width |-> <<115, 99, 114, 101, 101, 110, 95, 119, 105, 100, 116, 104>>,
     screen_height |-> <<115, 99, 114, 101, 101, 110, 95, 104, 101, 105, 103, 104, 116>>,
     hostname |-> <<104, 111, 115, 116, 110, 97, 109, 101>>,
     true |-> <<116, 114, 117, 101>>,
     false |-> <<102, 97, 108, 115, 101>>,
     null |-> <<110, 117, 108, 108>>]

\* Concatenation of a sequence of byte strings.
RECURSIVE Concat(_)
Concat(ss) == IF ss = <<>> THEN <<>> ELSE Head(ss) \o Concat(Tail(ss))

\* u16/i32/u64 to_string(): decimal digits, '-' before a negative number
RECURSIVE Digits(_)
Digits(n) == IF n < 10 THEN <<48 + n>> ELSE Digits(n \div 10) \o <<48 + (n % 10)>>

Decimal(n) == IF n < 0 THEN <<45>> \o Digits(-n) ELSE Digits(n)

IsDigit(b) == 48 <= b /\ b <= 57

\* The number a non-empty sequence of decimal digits denotes.
RECURSIVE DigitsValue(_)
DigitsValue(ds) ==
    IF ds = <<>> THEN 0
    ELSE 10 * DigitsValue(SubSeq(ds, 1, Len(ds) - 1)) + (ds[Len(ds)] - 48)

\* str::parse::<u16>(): an optional '+', then digits, the value within u16
ParseU16(bs) ==
    LET ds == IF bs # <<>> /\ bs[1] = 43 THEN Tail(bs) ELSE bs IN
    IF ds # <<>> /\ (\A i \in 1..Len(ds) : IsDigit(ds[i])) /\ Len(ds) <= 6
       /\ DigitsValue(ds) <= 65535
    THEN [ok |-> TRUE, n |-> DigitsValue(ds)]
    ELSE [ok |-> FALSE]

\* str::to_lowercase() on ASCII text
ToLowercase(bs) == [i \in 1..Len(bs) |-> IF 65 <= bs[i] /\ bs[i] <= 90 THEN bs[i] + 32 ELSE bs[i]]

\* UTF-8 as far as one- and two-byte sequences go (other lead bytes are
\* taken as invalid; the byte strings of the model hold none that starts a
\* valid longer sequence).
IsCont(b) == 128 <= b /\ b <= 191
IsLead2(b) == 194 <= b /\ b <= 223

\* String::from_utf8: is the byte string valid UTF-8
RECURSIVE Utf8Valid(_)
Utf8Valid(bs) ==
    IF bs = <<>> THEN TRUE
    ELSE IF bs[1] < 128 THEN Utf8Valid(Tail(bs))
    ELSE IF IsLead2(bs[1]) /\ Len(bs) >= 2 /\ IsCont(bs[2])
    THEN Utf8Valid(SubSeq(bs, 3, Len(bs)))
    ELSE FALSE

\* String::from_utf8_lossy: invalid bytes become U+FFFD (EF BF BD)
RECURSIVE Utf8Lossy(_)
Utf8Lossy(bs) ==
    IF bs = <<>> THEN <<>>
    ELSE IF bs[1] < 128 THEN <<bs[1]>> \o Utf8Lossy(Tail(bs))
    ELSE IF IsLead2(bs[1]) /\ Len(bs) >= 2 /\ IsCont(bs[2])
    THEN <<bs[1], bs[2]>> \o Utf8Lossy(SubSeq(bs, 3, Len(bs)))
    ELSE <<239, 191, 189>> \o Utf8Lossy(Tail(bs))

\* base64 STANDARD alphabet: the character of a 6-bit value
B64Char(v) ==
    IF v < 26 THEN 65 + v
    ELSE IF v < 52 THEN 97 + (v - 26)
    ELSE IF v < 62 THEN 48 + (v - 52)
    ELSE IF v = 62 THEN 43 ELSE 47

\* the 6-bit value of a character, -1 if it is not in the alphabet
B64Value(ch) ==
    IF 65 <= ch /\ ch <= 90 THEN ch - 65
    ELSE IF 97 <= ch /\ ch <= 122 THEN ch - 97 + 26
    ELSE IF 48 <= ch /\ ch <= 57 THEN ch - 48 + 52
    ELSE IF ch = 43 THEN 62
    ELSE IF ch = 47 THEN 63 ELSE -1

\* general_purpose::STANDARD.encode: 3 bytes to 4 characters, '=' padding
RECURSIVE Base64Encode(_)
Base64Encode(bs) ==
    IF bs = <<>> THEN <<>>
    ELSE IF Len(bs) = 1
    THEN <<B64Char(bs[1] \div 4), B64Char((bs[1] % 4) * 16), 61, 61>>
    ELSE IF Len(bs) = 2
    THEN <<B64Char(bs[1] \div 4), B64Char((bs[1] % 4) * 16 + bs[2] \div 16),
           B64Char((bs[2] % 16) * 4), 61>>
    ELSE <<B64Char(bs[1] \div 4), B64Char((bs[1] % 4) * 16 + bs[2] \div 16),
           B64Char((bs[2] % 16) * 4 + bs[3] \div 64), B64Char(bs[3] % 64)>>
         \o Base64Encode(SubSeq(bs, 4, Len(bs)))

\* general_purpose::STANDARD.decode: canonical padding required, no character
\* outside the alphabet, no bits set beyond the last byte
RECURSIVE Base64Decode(_)
Base64Decode(cs) ==
    IF cs = <<>> THEN [ok |-> TRUE, bytes |-> <<>>]
    ELSE IF Len(cs) < 4 THEN [ok |-> FALSE]
    ELSE LET a == B64Value(cs[1])
             b == B64Value(cs[2])
             c == B64Value(cs[3])
             d == B64Value(cs[4])
             last == Len(cs) = 4
         IN  IF a < 0 \/ b < 0 THEN [ok |-> FALSE]
             ELSE IF last /\ cs[3] = 61 /\ cs[4] = 61
             THEN IF b % 16 = 0 THEN [ok |-> TRUE, bytes |-> <<a * 4 + b \div 16>>]
                  ELSE [ok |-> FALSE]
             ELSE IF c < 0 THEN [ok |-> FALSE]
             ELSE IF last /\ cs[4] = 61
             THEN IF c % 4 = 0
                  THEN [ok |-> TRUE,
                        bytes |-> <<a * 4 + b \div 16, (b % 16) * 16 + c \div 4>>]
                  ELSE [ok |-> FALSE]
             ELSE IF d < 0 THEN [ok |-> FALSE]
             ELSE LET rest == Base64Decode(SubSeq(cs, 5, Len(cs))) IN
                  IF rest.ok
                  THEN [ok |-> TRUE,
                        bytes |-> <<a * 4 + b \div 16, (b % 16) * 16 + c \div 4,
                                    (c % 4) * 64 + d>> \o rest.bytes]
                  ELSE [ok |-> FALSE]

\* --------------------------------------------------- serde_json::Value
\* Null, Bool, Number (an integer), String, Array, Object (a map from keys to
\* values).  Floating-point numbers are outside the model.
VNull == [t |-> "Null"]
VBool(b) == [t |-> "Bool", b |-> b]
VNum(n) == [t |-> "Num", n |-> n]
VStr(s) == [t |-> "Str", s |-> s]
VArr(a) == [t |-> "Arr", a |-> a]
VObj(m) == [t |-> "Obj", m |-> m]

At(b, i) == IF 1 <= i /\ i <= Len(b) THEN b[i] ELSE -1

\* Ord for str: bytewise lexicographic
RECURSIVE LexLess(_, _)
LexLess(a, b) ==
    IF b = <<>> THEN FALSE
    ELSE IF a = <<>> THEN TRUE
    ELSE IF a[1] # b[1] THEN a[1] < b[1]
    ELSE LexLess(Tail(a), Tail(b))

\* The keys of a Map<String, Value> (a BTreeMap) in iteration order.
RECURSIVE SortKeys(_)
SortKeys(ks) ==
    IF ks = {} THEN <<>>
    ELSE LET k == CHOOSE x \in ks : \A y \in ks \ {x} : LexLess(x, y)
         IN  <<k>> \o SortKeys(ks \ {k})

RECURSIVE JoinComma(_)
JoinComma(ss) ==
    IF ss = <<>> THEN <<>>
    ELSE IF Len(ss) = 1 THEN ss[1]
    ELSE ss[1] \o <<44>> \o JoinComma(Tail(ss))

\* serde_json string output; the model's text has no control characters
JsonString(str) ==
    <<34>> \o Concat([i \in 1..Len(str) |->
                        IF str[i] \in {34, 92} THEN <<92, str[i]>> ELSE <<str[i]>>])
           \o <<34>>

\* serde_json::to_vec(&Value): compact output
RECURSIVE JsonEncode(_)
JsonEncode(v) ==
    CASE v.t = "Null" -> S.null
      [] v.t = "Bool" -> IF v.b THEN S.true ELSE S.false
      [] v.t = "Num" -> Decimal(v.n)
      [] v.t = "Str" -> JsonString(v.s)
      [] v.t = "Arr" ->
           <<91>> \o JoinComma([i \in 1..Len(v.a) |-> JsonEncode(v.a[i])]) \o <<93>>
      [] OTHER ->
           LET ks == SortKeys(DOMAIN v.m) IN
           <<123>> \o JoinComma([i \in 1..Len(ks) |->
                                   JsonString(ks[i]) \o <<58>> \o JsonEncode(v.m[ks[i]])])
                   \o <<125>>

RECURSIVE SkipWs(_, _)
SkipWs(b, i) == IF At(b, i) \in {32, 9, 10, 13} THEN SkipWs(b, i + 1) ELSE i

\* The text of a JSON string from the byte after its opening quote; escapes
\* other than \" \\ \/ are outside the model and taken as errors.
RECURSIVE ScanString(_, _, _)
ScanString(b, i, acc) ==
    LET c == At(b, i) IN
    IF c = 34 THEN [ok |-> TRUE, s |-> acc, i |-> i + 1]
    ELSE IF c = 92
    THEN IF At(b, i + 1) \in {34, 92, 47}
         THEN ScanString(b, i + 2, Append(acc, b[i + 1]))
         ELSE [ok |-> FALSE]
    ELSE IF c < 32 THEN [ok |-> FALSE]
    ELSE ScanString(b, i + 1, Append(acc, c))

RECURSIVE DigitRunEnd(_, _)
DigitRunEnd(b, i) == IF IsDigit(At(b, i)) THEN DigitRunEnd(b, i + 1) ELSE i

\* A JSON integer at i; a fraction or an exponent is outside the model.
ParseNumber(b, i) ==
    LET neg == At(b, i) = 45
        j == IF neg THEN i + 1 ELSE i
        e == DigitRunEnd(b, j)
    IN  IF e = j \/ (b[j] = 48 /\ e > j + 1) \/ At(b, e) \in {46, 101, 69}
           \/ (neg /\ e = j + 1 /\ b[j] = 48)
        THEN [ok |-> FALSE]
        ELSE LET n == DigitsValue(SubSeq(b, j, e - 1)) IN
             [ok |-> TRUE, v |-> VNum(IF neg THEN -n ELSE n), i |-> e]

IsAt(b, i, lit) == SubSeq(b, i, Min(Len(b), i + Len(lit) - 1)) = lit

\* serde_json's parser, for Value
RECURSIVE ParseValue(_, _), ParseElems(_, _, _), ParseMembers(_, _, _)
ParseValue(b, i) ==
    LET c == At(b, i) IN
    CASE c = 34 ->
           LET r == ScanString(b, i + 1, <<>>) IN
           IF r.ok /\ Utf8Valid(r.s) THEN [ok |-> TRUE, v |-> VStr(r.s), i |-> r.i]
           ELSE [ok |-> FALSE]
      [] c = 45 \/ IsDigit(c) -> ParseNumber(b, i)
      [] c = 116 -> IF IsAt(b, i, S.true) THEN [ok |-> TRUE, v |-> VBool(TRUE), i |-> i + 4]
                    ELSE [ok |-> FALSE]
      [] c = 102 -> IF IsAt(b, i, S.false) THEN [ok |-> TRUE, v |-> VBool(FALSE), i |-> i + 5]
                    ELSE [ok |-> FALSE]
      [] c = 110 -> IF IsAt(b, i, S.null) THEN [ok |-> TRUE, v |-> VNull, i |-> i + 4]
                    ELSE [ok |-> FALSE]
      [] c = 91 ->
           LET j == SkipWs(b, i + 1) IN
           IF At(b, j) = 93 THEN [ok |-> TRUE, v |-> VArr(<<>>), i |-> j + 1]
           ELSE ParseElems(b, j, <<>>)
      [] c = 123 ->
           LET j == SkipWs(b, i + 1) IN
           IF At(b, j) = 125 THEN [ok |-> TRUE, v |-> VObj(<<>>), i |-> j + 1]
           ELSE ParseMembers(b, j, <<>>)
      [] OTHER -> [ok |-> FALSE]

ParseElems(b, i, acc) ==
    LET r == ParseValue(b, i) IN
    IF ~r.ok THEN [ok |-> FALSE]
    ELSE LET k == SkipWs(b, r.i) IN
         IF At(b, k) = 44 THEN ParseElems(b, SkipWs(b, k + 1), Append(acc, r.v))
         ELSE IF At(b, k) = 93 THEN [ok |-> TRUE, v |-> VArr(Append(acc, r.v)), i |-> k + 1]
         ELSE [ok |-> FALSE]

ParseMembers(b, i, m) ==
    IF At(b, i) # 34 THEN [ok |-> FALSE]
    ELSE LET key == ScanString(b, i + 1, <<>>) IN
         IF ~key.ok THEN [ok |-> FALSE]
         ELSE LET c == SkipWs(b, key.i) IN
              IF At(b, c) # 58 THEN [ok |-> FALSE]
              ELSE LET r == ParseValue(b, SkipWs(b, c + 1)) IN
                   IF ~r.ok THEN [ok |-> FALSE]
                   ELSE LET m1 == [x \in (DOMAIN m) \cup {key.s} |->
                                      IF x = key.s THEN r.v ELSE m[x]]
                            k == SkipWs(b, r.i)
                        IN  IF At(b, k) = 44 THEN ParseMembers(b, SkipWs(b, k + 1), m1)
                            ELSE IF At(b, k) = 125
                            THEN [ok |-> TRUE, v |-> VObj(m1), i |-> k + 1]
                            ELSE [ok |-> FALSE]

\* serde_json::from_slice::<Value>: one value, then only white space
JsonFromSlice(b) ==
    LET r == ParseValue(b, SkipWs(b, 1)) IN
    IF r.ok /\ SkipWs(b, r.i) = Len(b) + 1 THEN [ok |-> TRUE, v |-> r.v]
    ELSE [ok |-> FALSE]

\* ------------------------------------------------------ MessagePack (rmps)
\* Big-endian bytes of n in w bytes.
RECURSIVE BigEndian(_, _)
BigEndian(n, w) == IF w = 0 THEN <<>> ELSE BigEndian(n \div 256, w - 1) \o <<n % 256>>

RECURSIVE FromBigEndian(_)
FromBigEndian(bs) ==
    IF bs = <<>> THEN 0
    ELSE 256 * FromBigEndian(SubSeq(bs, 1, Len(bs) - 1)) + bs[Len(bs)]

\* rmp write_uint / write_sint: the shortest encoding of an integer.  The
\* integers of the model lie within i32.
MpInt(n) ==
    IF n >= 0
    THEN IF n < 128 THEN <<n>>
         ELSE IF n < 256 THEN <<204, n>>
         ELSE IF n < 65536 THEN <<205>> \o BigEndian(n, 2)
         ELSE <<206>> \o BigEndian(n, 4)
    ELSE IF n >= -32 THEN <<256 + n>>
         ELSE IF n >= -128 THEN <<208, 256 + n>>
         ELSE IF n >= -32768 THEN <<209>> \o BigEndian(65536 + n, 2)
         ELSE LET low == (n + 2147483647) + 1 IN
              <<210, 128 + low \div 16777216>> \o BigEndian(low % 16777216, 3)

\* rmp write_str for texts shorter than 2^16 bytes
MpStr(str) ==
    IF Len(str) < 32 THEN <<160 + Len(str)>> \o str
    ELSE IF Len(str) < 256 THEN <<217, Len(str)>> \o str
    ELSE <<218>> \o BigEndian(Len(str), 2) \o str

MpArrayLen(n) == IF n < 16 THEN <<144 + n>> ELSE <<220>> \o BigEndian(n, 2)
MpMapLen(n) == IF n < 16 THEN <<128 + n>> ELSE <<222>> \o BigEndian(n, 2)

\* rmps::to_vec(&Value)
RECURSIVE MpEncode(_)
MpEncode(v) ==
    CASE v.t = "Null" -> <<192>>
      [] v.t = "Bool" -> IF v.b THEN <<195>> ELSE <<194>>
      [] v.t = "Num" -> MpInt(v.n)
      [] v.t = "Str" -> MpStr(v.s)
      [] v.t = "Arr" ->
           MpArrayLen(Len(v.a)) \o Concat([i \in 1..Len(v.a) |-> MpEncode(v.a[i])])
      [] OTHER ->
           LET ks == SortKeys(DOMAIN v.m) IN
           MpMapLen(Len(ks))
             \o Concat([i \in 1..Len(ks) |-> MpStr(ks[i]) \o MpEncode(v.m[ks[i]])])

\* rmps decoding of one value at i into a Value.  Markers for floats, bin,
\* ext, 64-bit integers and 32-bit lengths are outside the model (an error).
RECURSIVE MpDecode(_, _), MpElems(_, _, _, _), MpMembers(_, _, _, _)
MpDecode(b, i) ==
    LET c == At(b, i)
        IntAt(w, signed) ==
            IF i + w > Len(b) THEN [ok |-> FALSE]
            ELSE IF b[i + 1] < 128
            THEN [ok |-> TRUE, i |-> i + w + 1,
                  v |-> VNum(FromBigEndian(SubSeq(b, i + 1, i + w)))]
            ELSE IF signed
            THEN LET low == FromBigEndian(<<b[i + 1] - 128>> \o SubSeq(b, i + 2, i + w))
                     half == IF w = 1 THEN 128 ELSE IF w = 2 THEN 32768 ELSE 0
                 IN  [ok |-> TRUE, i |-> i + w + 1,
                      v |-> VNum(IF w = 4 THEN (low - 2147483647) - 1 ELSE low - half)]
            ELSE IF w = 4 THEN [ok |-> FALSE]   \* beyond i32: outside the model
            ELSE [ok |-> TRUE, i |-> i + w + 1,
                  v |-> VNum(FromBigEndian(SubSeq(b, i + 1, i + w)))]
        StrAt(start, n) ==
            IF start + n - 1 > Len(b) \/ ~Utf8Valid(SubSeq(b, start, start + n - 1))
            THEN [ok |-> FALSE]
            ELSE [ok |-> TRUE, i |-> start + n, v |-> VStr(SubSeq(b, start, start + n - 1))]
    IN  CASE c < 0 -> [ok |-> FALSE]
          [] c <= 127 -> [ok |-> TRUE, v |-> VNum(c), i |-> i + 1]
          [] c >= 224 -> [ok |-> TRUE, v |-> VNum(c - 256), i |-> i + 1]
          [] 128 <= c /\ c <= 143 -> MpMembers(b, i + 1, c - 128, <<>>)
          [] 144 <= c /\ c <= 159 -> MpElems(b, i + 1, c - 144, <<>>)
          [] 160 <= c /\ c <= 191 -> StrAt(i + 1, c - 160)
          [] c = 192 -> [ok |-> TRUE, v |-> VNull, i |-> i + 1]
          [] c = 194 -> [ok |-> TRUE, v |-> VBool(FALSE), i |-> i + 1]
          [] c = 195 -> [ok |-> TRUE, v |-> VBool(TRUE), i |-> i + 1]
          [] c = 204 -> IntAt(1, FALSE)
          [] c = 205 -> IntAt(2, FALSE)
          [] c = 206 -> IntAt(4, FALSE)
          [] c = 208 -> IntAt(1, TRUE)
          [] c = 209 -> IntAt(2, TRUE)
          [] c = 210 -> IntAt(4, TRUE)
          [] c = 217 -> IF i + 1 > Len(b) THEN [ok |-> FALSE] ELSE StrAt(i + 2, b[i + 1])
          [] OTHER -> [ok |-> FALSE]

MpElems(b, i, n, acc) ==
    IF n = 0 THEN [ok |-> TRUE, v |-> VArr(acc), i |-> i]
    ELSE LET r == MpDecode(b, i) IN
         IF r.ok THEN MpElems(b, r.i, n - 1, Append(acc, r.v)) ELSE [ok |-> FALSE]

MpMembers(b, i, n, m) ==
    IF n = 0 THEN [ok |-> TRUE, v |-> VObj(m), i |-> i]
    ELSE LET k == MpDecode(b, i) IN
         IF ~k.ok \/ k.v.t # "Str" THEN [ok |-> FALSE]
         ELSE LET r == MpDecode(b, k.i) IN
              IF ~r.ok THEN [ok |-> FALSE]
              ELSE MpMembers(b, r.i, n - 1,
                             [x \in (DOMAIN m) \cup {k.v.s} |->
                                 IF x = k.v.s THEN r.v ELSE m[x]])

\* rmps::from_slice::<Value>: the first value of the slice (bytes after it are
\* not looked at)
MpFromSlice(b) ==
    LET r == MpDecode(b, 1) IN
    IF r.ok THEN [ok |-> TRUE, v |-> r.v] ELSE [ok |-> FALSE]

\* ------------------------------------------- typed (de)serialization (serde)
IsI32(v) == v.t = "Num"
IsU32(v) == v.t = "Num" /\ 0 <= v.n

\* The values of a struct's fields, from a map by name or a sequence by position.
Fields(v, names) ==
    IF v.t = "Obj" /\ (\A i \in 1..Len(names) : names[i] \in DOMAIN v.m)
    THEN [ok |-> TRUE, f |-> [i \in 1..Len(names) |-> v.m[names[i]]]]
    ELSE IF v.t = "Arr" /\ Len(v.a) = Len(names)
    THEN [ok |-> TRUE, f |-> v.a]
    ELSE [ok |-> FALSE]

\* derive(Deserialize) for GenericAction (an externally tagged enum), from the
\* tree a deserializer presents
ActionFromTree(v) ==
    IF v.t # "Obj" \/ Cardinality(DOMAIN v.m) # 1 THEN [ok |-> FALSE]
    ELSE LET tag == CHOOSE k \in DOMAIN v.m : TRUE
             body == v.m[tag]
         IN  CASE tag = S.MouseMove ->
                    LET r == Fields(body, <<S.x, S.y, S.wheel>>) IN
                    IF r.ok /\ IsI32(r.f[1]) /\ IsI32(r.f[2]) /\ IsI32(r.f[3])
                    THEN [ok |-> TRUE,
                          action |-> [type |-> "MouseMove", x |-> r.f[1].n,
                                      y |-> r.f[2].n, wheel |-> r.f[3].n]]
                    ELSE [ok |-> FALSE]
               [] tag = S.MouseClick ->
                    LET r == Fields(body, <<S.button, S.pressed>>) IN
                    IF r.ok /\ r.f[1].t = "Str" /\ r.f[2].t = "Bool"
                    THEN [ok |-> TRUE,
                          action |-> [type |-> "MouseClick", button |-> r.f[1].s,
                                      pressed |-> r.f[2].b]]
                    ELSE [ok |-> FALSE]
               [] tag = S.KeyPress ->
                    LET r == Fields(body, <<S.key, S.pressed>>) IN
                    IF r.ok /\ r.f[1].t = "Str" /\ r.f[2].t = "Bool"
                    THEN [ok |-> TRUE,
                          action |-> [type |-> "KeyPress", key |-> r.f[1].s,
                                      pressed |-> r.f[2].b]]
                    ELSE [ok |-> FALSE]
               [] OTHER -> [ok |-> FALSE]

\* The fields of a GenericAction in declaration order, as <<name, value>>.
ActionFields(a) ==
    CASE a.type = "MouseMove" ->
           <<<<S.x, VNum(a.x)>>, <<S.y, VNum(a.y)>>, <<S.wheel, VNum(a.wheel)>>>>
      [] a.type = "MouseClick" ->
           <<<<S.button, VStr(a.button)>>, <<S.pressed, VBool(a.pressed)>>>>
      [] OTHER -> <<<<S.key, VStr(a.key)>>, <<S.pressed, VBool(a.pressed)>>>>

VariantName(a) ==
    CASE a.type = "MouseMove" -> S.MouseMove
      [] a.type = "MouseClick" -> S.MouseClick
      [] OTHER -> S.KeyPress

\* serde_json::to_value(&GenericAction): {"Variant": {field: value, ...}}
ActionToValue(a) ==
    LET fs == ActionFields(a)
        body == [k \in {fs[i][1] : i \in 1..Len(fs)} |->
                    (CHOOSE f \in {fs[i] : i \in 1..Len(fs)} : f[1] = k)[2]]
    IN  VObj([k \in {VariantName(a)} |-> VObj(body)])

\* serialize_bin(&GenericAction): a map of one entry, variant name to the
\* array of the field values
ActionToMp(a) ==
    LET fs == ActionFields(a) IN
    MpMapLen(1) \o MpStr(VariantName(a)) \o MpArrayLen(Len(fs))
      \o Concat([i \in 1..Len(fs) |-> MpEncode(fs[i][2])])

\* deserialize_bin::<GenericAction>
ActionFromMp(b) ==
    LET r == MpFromSlice(b) IN IF r.ok THEN ActionFromTree(r.v) ELSE [ok |-> FALSE]

\* derive(Deserialize) for ServerConfig
ConfigFromTree(v) ==
    LET r == Fields(v, <<S.version, S.screen_width, S.screen_height, S.hostname>>) IN
    IF r.ok /\ IsU32(r.f[1]) /\ IsU32(r.f[2]) /\ IsU32(r.f[3]) /\ r.f[4].t = "Str"
    THEN [ok |-> TRUE,
          config |-> [version |-> r.f[1].n, screen_width |-> r.f[2].n,
                      screen_height |-> r.f[3].n, hostname |-> r.f[4].s]]
    ELSE [ok |-> FALSE]

\* serde_json::to_vec(&ServerConfig): the fields in declaration order
ConfigToJson(c) ==
    <<123>> \o JoinComma(<<JsonString(S.version) \o <<58>> \o Decimal(c.version),
                           JsonString(S.screen_width) \o <<58>> \o Decimal(c.screen_width),
                           JsonString(S.screen_height) \o <<58>> \o Decimal(c.screen_height),
                           JsonString(S.hostname) \o <<58>> \o JsonString(c.hostname)>>)
            \o <<125>>

\* rmps::to_vec(&ServerConfig): the array of the field values
ConfigToMp(c) ==
    MpArrayLen(4) \o MpInt(c.version) \o MpInt(c.screen_width)
      \o MpInt(c.screen_height) \o MpStr(c.hostname)

\* send_action + tx.send: the published GenericAction
MoveAction(mm) == [type |-> "MouseMove", x |-> mm.x, y |-> mm.y, wheel |-> mm.wheel]
ClickAction(mc) ==
    [type |-> "MouseClick",
     button |-> CASE mc.button = "Left" -> S.left
                  [] mc.button = "Right" -> S.right
                  [] OTHER -> S.middle,
     pressed |-> mc.pressed]
KeyAction(kp) == [type |-> "KeyPress", key |-> Decimal(kp.key), pressed |-> kp.pressed]

\* The GenericAction that corresponds to a driver event.
Corresponds(action, ev) ==
    CASE ev.type = "MouseMove" ->
           action.type = "MouseMove" /\ action.x = ev.x /\ action.y = ev.y
           /\ action.wheel = ev.wheel
      [] ev.type = "MouseClick" ->
           action.type = "MouseClick" /\ action.pressed = ev.pressed
           /\ ToLowercase(action.button)
                = (CASE ev.button = "Left" -> S.left
                     [] ev.button = "Right" -> S.right
                     [] OTHER -> S.middle)
      [] OTHER ->
           /\ action.type = "KeyPress" /\ action.pressed = ev.pressed
           /\ ParseU16(action.key) = [ok |-> TRUE, n |-> ev.key]

\* (mutant of Route) nothing is forwarded unless the devices are grabbed
RouteWhenGrabbed(c, action, ev) ==
    IF c.remote_mode /\ c.inputs_grabbed
    THEN [kind |-> "publish", type |-> ev.type, faithful |-> Corresponds(action, ev)]
    ELSE IF c.inputs_grabbed
    THEN [kind |-> "local", type |-> ev.type, faithful |-> TRUE]
    ELSE NoOut

\* Routing of an event by the mode flags (lines 114-124, 137-141, 165-169).  The
\* record keeps where the event went, its type, and whether the published action
\* is the one that corresponds to the event.
Route(c, action, ev) ==
    IF c.remote_mode
    THEN [kind |-> "publish", type |-> ev.type, faithful |-> Corresponds(action, ev)]
    ELSE IF c.inputs_grabbed
    THEN [kind |-> "local", type |-> ev.type, faithful |-> TRUE]
    ELSE NoOut

\* (mutant of HandleMouseMove) the move is routed by the mode it started in
HandleMouseMoveRouteBefore(c, devs, n, st, mm, k) ==
    IF c.calibration_mode
    THEN LET c1 == [c EXCEPT !.cursor_x = Max(c.cursor_x + mm.x, 0),
                             !.cursor_y = Max(c.cursor_y + mm.y, 0)]
         IN [ctx |-> c1, devs |-> devs, status |-> UpdateStatus(st, c1), out |-> NoOut]
    ELSE LET c1 == ClampCursor(c, mm)
             new_remote_mode == NewRemoteMode(c1)
             sw == IF new_remote_mode # c1.remote_mode
                   THEN SwitchMode(c1, devs, n, new_remote_mode, k)
                   ELSE [ctx |-> c1, devs |-> devs]
         IN [ctx |-> sw.ctx, devs |-> sw.devs, status |-> UpdateStatus(st, sw.ctx),
             out |-> Route(c1, MoveAction(mm), mm)]

\* DriverLoopContext::handle_mouse_move; result [ctx, devs, status, out]
HandleMouseMove(c, devs, n, st, mm, k) ==
    IF c.calibration_mode
    THEN LET c1 == [c EXCEPT !.cursor_x = Max(c.cursor_x + mm.x, 0),
                             !.cursor_y = Max(c.cursor_y + mm.y, 0)]
         IN [ctx |-> c1, devs |-> devs, status |-> UpdateStatus(st, c1), out |-> NoOut]
    ELSE LET c1 == ClampCursor(c, mm)
             new_remote_mode == NewRemoteMode(c1)
             sw == IF new_remote_mode # c1.remote_mode
                   THEN SwitchMode(c1, devs, n, new_remote_mode, k)
                   ELSE [ctx |-> c1, devs |-> devs]
         IN [ctx |-> sw.ctx, devs |-> sw.devs, status |-> UpdateStatus(st, sw.ctx),
             out |-> Route(sw.ctx, MoveAction(mm), mm)]

\* (mutant of HandleMouseClick) a click that is not forwarded is always replayed
HandleMouseClickReplayAlways(c, devs, st, mc) ==
    [ctx |-> c, devs |-> devs, status |-> st,
     out |-> IF c.remote_mode THEN Route(c, ClickAction(mc), mc)
             ELSE [kind |-> "local", type |-> mc.type, faithful |-> TRUE]]

\* DriverLoopContext::handle_mouse_click
HandleMouseClick(c, devs, st, mc) ==
    [ctx |-> c, devs |-> devs, status |-> st, out |-> Route(c, ClickAction(mc), mc)]

\* (mutant of HandleKeyPress) the release of the calibration key confirms too
HandleKeyPressAnyEdge(c, devs, st, kp) ==
    IF c.calibration_mode /\ kp.key = CALIBRATION_KEY
    THEN LET c1 == [c EXCEPT !.master_width = Max(c.cursor_x + 1, 1),
                             !.master_height = Max(c.cursor_y + 1, 1),
                             !.calibration_mode = FALSE,
                             !.remote_mode = FALSE]
         IN [ctx |-> c1, devs |-> devs, status |-> UpdateStatus(st, c1), out |-> NoOut]
    ELSE [ctx |-> c, devs |-> devs, status |-> st, out |-> Route(c, KeyAction(kp), kp)]

\* (mutant of HandleKeyPress) the dimensions are the cursor position itself
HandleKeyPressNoPlusOne(c, devs, st, kp) ==
    IF c.calibration_mode /\ kp.key = CALIBRATION_KEY /\ kp.pressed
    THEN LET c1 == [c EXCEPT !.master_width = Max(c.cursor_x, 1),
                             !.master_height = Max(c.cursor_y, 1),
                             !.calibration_mode = FALSE,
                             !.remote_mode = FALSE]
         IN [ctx |-> c1, devs |-> devs, status |-> UpdateStatus(st, c1), out |-> NoOut]
    ELSE [ctx |-> c, devs |-> devs, status |-> st, out |-> Route(c, KeyAction(kp), kp)]

\* DriverLoopContext::handle_key_press
HandleKeyPress(c, devs, st, kp) ==
    IF c.calibration_mode /\ kp.key = CALIBRATION_KEY /\ kp.pressed
    THEN LET c1 == [c EXCEPT !.master_width = Max(c.cursor_x + 1, 1),
                             !.master_height = Max(c.cursor_y + 1, 1),
                             !.calibration_mode = FALSE,
                             !.remote_mode = FALSE]
         IN [ctx |-> c1, devs |-> devs, status |-> UpdateStatus(st, c1), out |-> NoOut]
    ELSE [ctx |-> c, devs |-> devs, status |-> st, out |-> Route(c, KeyAction(kp), kp)]

\* handle_event, lines 66-72: the pressed-key set
TrackKeys(c, ev) ==
    IF ev.type = "KeyboardPress"
    THEN [c EXCEPT !.pressed_keys = IF ev.pressed THEN @ \cup {ev.key} ELSE @ \ {ev.key}]
    ELSE c

\* (mutant of IsFailsafe) any key press that completes the three held keys
IsFailsafeAnyOrder(c, ev) ==
    /\ ev.type = "KeyboardPress"
    /\ ev.pressed
    /\ {FAILSAFE_KEY_CTRL, FAILSAFE_KEY_ALT, FAILSAFE_KEY_Q} \subseteq c.pressed_keys

\* handle_event, lines 74-77: the failsafe condition (on the updated set)
IsFailsafe(c, ev) ==
    /\ ev.type = "KeyboardPress"
    /\ ev.pressed
    /\ FAILSAFE_KEY_CTRL \in c.pressed_keys
    /\ FAILSAFE_KEY_ALT \in c.pressed_keys
    /\ ev.key = FAILSAFE_KEY_Q

\* handle_event, lines 85-89
Dispatch(c, devs, n, st, ev, k) ==
    CASE ev.type = "MouseMove" -> HandleMouseMove(c, devs, n, st, ev, k)
      [] ev.type = "MouseClick" -> HandleMouseClick(c, devs, st, ev)
      [] OTHER -> HandleKeyPress(c, devs, st, ev)

\* DriverLoopContext::handle_event as a function: the context, devices and
\* status after the event, what was done with the event (out), whether the
\* running flag was cleared (stopped) and the value returned (cont)
HandleEventResult(c, devs, n, st, ev, k) ==
    LET c0 == TrackKeys(c, ev) IN
    IF IsFailsafe(c0, ev)
    THEN [ctx |-> c0, devs |-> devs, status |-> st, out |-> NoOut,
          stopped |-> TRUE, cont |-> FALSE]
    ELSE LET r == Dispatch(c0, devs, n, st, ev, k) IN
         [ctx |-> r.ctx, devs |-> r.devs, status |-> r.status, out |-> r.out,
          stopped |-> FALSE, cont |-> TRUE]

\* The outcomes k of the grab_inputs/ungrab_inputs call that handling ev makes:
\* any number of devices handled before a failure if a call is made, else n.
SyscallOutcomes(c, ev, n) ==
    IF /\ ev.type = "MouseMove"
       /\ ~c.calibration_mode
       /\ NewRemoteMode(ClampCursor(c, ev)) # c.remote_mode
       /\ NewRemoteMode(ClampCursor(c, ev)) # c.inputs_grabbed
    THEN 0..n
    ELSE {n}

\* A boundary crossing of the (clamped) x position between two contexts.
Crossed(c, c1) ==
    /\ ~c.calibration_mode
    /\ (c.cursor_x >= c.master_width) # (c1.cursor_x >= c1.master_width)

\* ----------------------------------------------------------------- actions
\* ============================================================ the codec
Modes == {"Json", "Binary"}

\* PacketType: the kinds in the order of their u8 values 0..9
PacketKinds ==
    <<"Ok", "Err", "ServerHello", "Action", "ClientQuit", "DropSend", "DropRequest",
      "Data", "EdgeL", "EdgeR">>

\* Packet::packet_type() as u8
PacketTypeByte(kind) == (CHOOSE i \in 1..Len(PacketKinds) : PacketKinds[i] = kind) - 1

\* PacketType::try_from(u8)
PacketTypeFrom(b) ==
    IF 0 <= b /\ b < Len(PacketKinds) THEN [ok |-> TRUE, kind |-> PacketKinds[b + 1]]
    ELSE [ok |-> FALSE]

SimpleKinds == {"Ok", "ClientQuit", "EdgeL", "EdgeR"}

\* ErrorCode::try_from(u8).unwrap_or(ErrorCode::Unknown); a code is its u8 value
ErrorCodeFrom(b) == IF b \in 0..3 THEN b ELSE 0

\* u32::from_be_bytes(..) as usize; a length with the top bit set is beyond
\* every buffer of the model and is read as the largest length
U32From(bs) == IF bs[1] >= 128 THEN 2147483647 ELSE FromBigEndian(bs)

\* Packet::insert_into_buf
InsertIntoBuf(buf, bytes) == buf \o BigEndian(Len(bytes), LENGTH_PREFIX_SIZE) \o bytes

\* Packet::serialize_into for a Value / for a ServerConfig
SerializeValue(mode, v) == IF mode = "Json" THEN JsonEncode(v) ELSE MpEncode(v)
SerializeConfig(mode, c) == IF mode = "Json" THEN ConfigToJson(c) ELSE ConfigToMp(c)

\* Packet::deserialize_from / serialization::deserialize for a Value
DeserializeValue(mode, data) ==
    IF mode = "Json" THEN JsonFromSlice(data) ELSE MpFromSlice(data)

\* the same for a ServerConfig
DeserializeConfig(mode, data) ==
    LET r == DeserializeValue(mode, data) IN
    IF r.ok THEN ConfigFromTree(r.v) ELSE [ok |-> FALSE]

\* Packet::serialize_with_mode
SerializeWithMode(p, mode) ==
    LET buf == <<PacketTypeByte(p.kind)>> IN
    CASE p.kind \in SimpleKinds -> buf
      [] p.kind = "Err" -> InsertIntoBuf(Append(buf, p.code), p.message)
      [] p.kind = "ServerHello" -> InsertIntoBuf(buf, SerializeConfig(mode, p.config))
      [] p.kind = "Action" ->
           IF mode = "Binary" /\ p.action.t = "Str"
           THEN InsertIntoBuf(buf, p.action.s)
           ELSE InsertIntoBuf(buf, SerializeValue(mode, p.action))
      [] p.kind \in {"DropSend", "DropRequest"} -> InsertIntoBuf(buf, p.filename)
      [] OTHER -> InsertIntoBuf(buf, p.data)

Fail(e) == [ok |-> FALSE, err |-> e]
Got(p) == [ok |-> TRUE, packet |-> p]

\* Packet::read_payload(data, offset, _)
ReadPayload(data, offset) ==
    IF Len(data) < offset + LENGTH_PREFIX_SIZE THEN Fail("Invalid")
    ELSE LET len == U32From(SubSeq(data, offset + 1, offset + LENGTH_PREFIX_SIZE))
             payload_start == offset + LENGTH_PREFIX_SIZE
         IN  IF Len(data) - payload_start < len THEN Fail("Truncated")
             ELSE [ok |-> TRUE,
                   payload |-> SubSeq(data, payload_start + 1, payload_start + len)]

\* Packet::deserialize_error
DeserializeError(data) ==
    IF Len(data) < MIN_ERROR_PACKET_SIZE + PACKET_TYPE_SIZE THEN Fail("Invalid")
    ELSE LET r == ReadPayload(data, ERROR_LENGTH_OFFSET) IN
         IF ~r.ok THEN r
         ELSE Got([kind |-> "Err", code |-> ErrorCodeFrom(data[ERROR_CODE_OFFSET + 1]),
                   message |-> Utf8Lossy(r.payload)])

\* Packet::deserialize_with_mode
DeserializeWithMode(data, mode) ==
    IF data = <<>> THEN Fail("Empty")
    ELSE LET t == PacketTypeFrom(data[1]) IN
    IF ~t.ok THEN Fail("UnknownType")
    ELSE IF t.kind \in SimpleKinds THEN Got([kind |-> t.kind])
    ELSE IF t.kind = "Err" THEN DeserializeError(data)
    ELSE LET r == ReadPayload(data, PAYLOAD_LENGTH_OFFSET) IN
         IF ~r.ok THEN r
         ELSE CASE t.kind = "ServerHello" ->
                     LET c == DeserializeConfig(mode, r.payload) IN
                     IF c.ok THEN Got([kind |-> "ServerHello", config |-> c.config])
                     ELSE Fail("Payload")
                [] t.kind = "Action" ->
                     IF mode = "Json"
                     THEN LET v == DeserializeValue(mode, r.payload) IN
                          IF v.ok THEN Got([kind |-> "Action", action |-> v.v])
                          ELSE Fail("Payload")
                     ELSE IF Utf8Valid(r.payload)
                     THEN Got([kind |-> "Action", action |-> VStr(r.payload)])
                     ELSE Fail("Encoding")
                [] t.kind \in {"DropSend", "DropRequest"} ->
                     Got([kind |-> t.kind, filename |-> Utf8Lossy(r.payload)])
                [] OTHER -> Got([kind |-> "Data", data |-> r.payload])

\* receive(): what it does once it has read the bytes acc of the stream:
\* [st |-> "need", n] - the read_exact in progress wants n more bytes;
\* [st |-> "done", res] - it returns res.
ReceiveOn(acc, mode) ==
    LET Need(total) == [st |-> "need", n |-> total - Len(acc)]
        Done(res) == [st |-> "done", res |-> res]
    IN
    IF Len(acc) < PACKET_TYPE_SIZE THEN Need(PACKET_TYPE_SIZE)
    ELSE LET t == PacketTypeFrom(acc[1]) IN
    IF ~t.ok THEN Done(Fail("InvalidPacketType"))
    ELSE IF t.kind \in SimpleKinds THEN Done(Got([kind |-> t.kind]))
    ELSE IF t.kind = "Err"
    THEN \* read_error: code, length, message
         IF Len(acc) < 2 THEN Need(2)
         ELSE IF Len(acc) < 6 THEN Need(6)
         ELSE LET len == U32From(SubSeq(acc, 3, 6)) IN
              IF Len(acc) - 6 < len THEN [st |-> "need", n |-> len - (Len(acc) - 6)]
              ELSE Done(Got([kind |-> "Err", code |-> ErrorCodeFrom(acc[2]),
                             message |-> Utf8Lossy(SubSeq(acc, 7, 6 + len))]))
    ELSE \* read_data_payload: length, data
         IF Len(acc) < 5 THEN Need(5)
         ELSE LET len == U32From(SubSeq(acc, 2, 5))
                  data == SubSeq(acc, 6, 5 + len)
              IN
              IF Len(acc) - 5 < len THEN [st |-> "need", n |-> len - (Len(acc) - 5)]
              ELSE CASE t.kind = "ServerHello" ->
                          LET c == DeserializeConfig(mode, data) IN
                          Done(IF c.ok THEN Got([kind |-> "ServerHello", config |-> c.config])
                               ELSE Fail("InvalidData"))
                     [] t.kind = "Action" ->
                          LET v == DeserializeValue(mode, data) IN
                          Done(IF v.ok THEN Got([kind |-> "Action", action |-> v.v])
                               ELSE Fail("InvalidData"))
                     [] t.kind \in {"DropSend", "DropRequest"} ->
                          Done(Got([kind |-> t.kind, filename |-> Utf8Lossy(data)]))
                     [] OTHER -> Done(Got([kind |-> "Data", data |-> data]))

\* receive() on a stream that holds the bytes `stream` and is then closed by
\* the peer: read_exact fails with UnexpectedEof when the bytes run out
RECURSIVE ReceiveFrom(_, _, _)
ReceiveFrom(stream, acc, mode) ==
    LET r == ReceiveOn(acc, mode) IN
    IF r.st = "done" THEN r.res
    ELSE IF Len(stream) - Len(acc) >= r.n
    THEN ReceiveFrom(stream, SubSeq(stream, 1, Len(acc) + r.n), mode)
    ELSE Fail("Io")

Receive(stream, mode) == ReceiveFrom(stream, <<>>, mode)

\* command.rs serialize_action
SerializeAction(mode, a) ==
    IF mode = "Json" THEN ActionToValue(a)
    ELSE VStr(Base64Encode(ActionToMp(a)))

\* command.rs send_action: ServerMessage::Action(value)
SendAction(mode, a) == [type |-> "Action", value |-> SerializeAction(mode, a)]

\* event.rs generic_action_to_driver_event
GenericActionToDriverEvent(a) ==
    CASE a.type = "MouseMove" ->
           [ok |-> TRUE,
            event |-> [type |-> "MouseMove", x |-> a.x, y |-> a.y, wheel |-> a.wheel]]
      [] a.type = "MouseClick" ->
           LET b == ToLowercase(a.button) IN
           IF b \in {S.left, S.right, S.middle}
           THEN [ok |-> TRUE,
                 event |-> [type |-> "MouseClick",
                            button |-> CASE b = S.left -> "Left"
                                         [] b = S.right -> "Right"
                                         [] OTHER -> "Middle",
                            pressed |-> a.pressed]]
           ELSE [ok |-> FALSE]
      [] OTHER ->
           LET k == ParseU16(a.key) IN
           IF k.ok
           THEN [ok |-> TRUE,
                 event |-> [type |-> "KeyboardPress", key |-> k.n, pressed |-> a.pressed]]
           ELSE [ok |-> FALSE]

\* event.rs action_to_driver_event
ActionToDriverEvent(mode, value) ==
    LET generic ==
          IF mode = "Json" THEN ActionFromTree(value)
          ELSE IF value.t = "Str"
          THEN LET bytes == Base64Decode(value.s) IN
               IF bytes.ok THEN ActionFromMp(bytes.bytes) ELSE [ok |-> FALSE]
          ELSE [ok |-> FALSE]
    IN  IF generic.ok THEN GenericActionToDriverEvent(generic.action) ELSE [ok |-> FALSE]

\* The GenericAction the driver loop builds for an event.
ActionOf(ev) ==
    CASE ev.type = "MouseMove" -> MoveAction(ev)
      [] ev.type = "MouseClick" -> ClickAction(ev)
      [] OTHER -> KeyAction(ev)

InitService ==
    /\ running = FALSE
    /\ status = StatusDefault

InitDriver ==
    /\ drv_pc = "none"
    /\ batch_left = 0
    /\ num_devices = 0
    /\ dev_grabbed = {}
    /\ ctx = CtxNew(DefaultWidth, DefaultHeight)
    /\ out = NoOut
    /\ failsafe_fired = FALSE
    /\ crossings = 0

\* ------------------------------------------------------------ the fan-out
Conns == 1..MaxClients

\* A connection no accept has produced yet.  rx_pos is the hub index the
\* handler's broadcast::Receiver reads next; stop_sig is the value in its
\* oneshot stop channel; sent lists what the handler wrote to its socket.
\* sub_pos, helloed and term_at are history: the receiver's first index,
\* whether the ServerHello arm was taken, the hub length at termination.
ConnInit ==
    [pc |-> "none", rx_pos |-> 0, sub_pos |-> 0, stop_sig |-> FALSE,
     sent |-> <<>>, helloed |-> FALSE, term_at |-> -1]

\* Handlers that hold a live broadcast::Receiver.
Receivers(cn) == {c \in Conns : cn[c].pc \in {"hello", "stream", "ack"}}

\* (mutant of Broadcast) the message is queued whether or not anyone listens
BroadcastAlways(h, cn, msg) == Append(h, msg)

\* broadcast::Sender::send: Err (message dropped) when no receiver exists
Broadcast(h, cn, msg) == IF Receivers(cn) = {} THEN h ELSE Append(h, msg)

InClients(cl, c) == \E i \in 1..Len(cl) : cl[i].id = c

InitNet ==
    /\ net_pc = "none"
    /\ tx_open = FALSE
    /\ hub = <<>>
    /\ conn = [c \in Conns |-> ConnInit]
    /\ clients = <<>>
    /\ stoppers = {}

\* No stream is being read / no codec function is being applied.
FrIdle == [stage |-> "off"]
CdIdle == [stage |-> "off"]

\* No send_file call was made, no handler was signalled, no earlier start()
\* left a loop behind, no slave is followed.
ApiIdle == [seq |-> 0, result |-> "none"]
SlaveIdle == [stage |-> "off", tx |-> <<>>, seen |-> 0]
\* No connection is followed packet by packet; no SlaveService is followed.
WireIdle == [pc |-> "off"]
SvcIdle == [stage |-> "off"]

InitExt ==
    /\ api = ApiIdle
    /\ mark = [c \in Conns |-> -1]
    /\ orphans = <<>>
    /\ slave = SlaveIdle
    /\ wire = WireIdle
    /\ svc = SvcIdle

InitProto == fr = FrIdle /\ cd = CdIdle /\ InitExt

Init == InitService /\ InitDriver /\ InitNet /\ InitProto

\* MasterService::start(mouse, keyboard) with n devices opened by init_driver
Start(n) ==
    /\ ~running
    /\ drv_pc = "none"
    /\ running' = TRUE
    /\ status' = StatusReset(status)
    /\ num_devices' = n
    /\ ctx' = CtxNew(StatusReset(status).master_width, StatusReset(status).master_height)
    /\ drv_pc' = "check"
    /\ tx_open' = TRUE
    /\ hub' = <<>>
    /\ net_pc' = "bind"
    /\ UNCHANGED <<batch_left, dev_grabbed, out, failsafe_fired, crossings>>
    /\ UNCHANGED <<conn, clients, stoppers, protoVars>>

\* MasterService::stop
Stop ==
    /\ running
    /\ running' = FALSE
    /\ status' = [status EXCEPT !.running = FALSE, !.remote_mode = FALSE]
    /\ tx_open' = FALSE
    /\ conn' = [c \in Conns |->
                  IF c \in stoppers THEN [conn[c] EXCEPT !.stop_sig = TRUE]
                  ELSE conn[c]]
    /\ stoppers' = {}
    /\ UNCHANGED <<driverVars, net_pc, hub, clients, protoVars>>

\* driver loop: `while running.load()` true, read_events() returns a batch of b
\* events (an Err or an empty Vec is b = 0; a reader without devices returns no
\* event), then the 10 ms sleep once it is handled
DriverPoll(b) ==
    /\ drv_pc = "check"
    /\ running
    /\ num_devices = 0 => b = 0
    /\ batch_left' = b
    /\ drv_pc' = IF b = 0 THEN "check" ELSE "batch"
    /\ UNCHANGED <<running, status, num_devices, dev_grabbed, ctx, out,
                   failsafe_fired, crossings>>
    /\ UNCHANGED <<netVars, protoVars>>

\* driver loop: ctx.handle_event(event, &mut reader) for the next event of the batch
HandleEvent(ev, k) ==
    /\ drv_pc = "batch"
    /\ ctx.calibration_mode /\ ev.type = "MouseMove"
         => ctx.cursor_x + ev.x <= MaxX /\ ctx.cursor_y + ev.y <= MaxY
    /\ UNCHANGED <<net_pc, tx_open, conn, clients, stoppers, protoVars>>
    /\ LET c0 == TrackKeys(ctx, ev) IN
       IF IsFailsafe(c0, ev)
       THEN /\ running' = FALSE
            /\ ctx' = c0
            /\ failsafe_fired' = TRUE
            /\ batch_left' = 0
            /\ drv_pc' = "check"
            /\ UNCHANGED <<status, num_devices, dev_grabbed, out, crossings, hub>>
       ELSE LET r == Dispatch(c0, dev_grabbed, num_devices, status, ev, k) IN
            /\ ctx' = r.ctx
            /\ dev_grabbed' = r.devs
            /\ status' = r.status
            /\ out' = r.out
            /\ hub' = IF r.out.kind = "publish" THEN Broadcast(hub, conn, "Action")
                      ELSE hub
            /\ batch_left' = batch_left - 1
            /\ drv_pc' = IF batch_left = 1 THEN "check" ELSE "batch"
            /\ crossings' = IF Crossed(c0, r.ctx) THEN 1 - crossings ELSE crossings
            /\ UNCHANGED <<running, num_devices, failsafe_fired>>

\* driver loop: `while running.load()` false; lines 173-182, then the task's
\* locals (reader, ctx) are dropped
DriverExit(k) ==
    /\ drv_pc = "check"
    /\ ~running
    /\ dev_grabbed' = DropReader(IF ctx.inputs_grabbed
                                 THEN UngrabInputs(dev_grabbed, k)
                                 ELSE dev_grabbed)
    /\ status' = [status EXCEPT !.running = FALSE, !.remote_mode = FALSE]
    /\ drv_pc' = "done"
    /\ UNCHANGED <<running, batch_left, num_devices, ctx, out,
                   failsafe_fired, crossings>>
    /\ UNCHANGED <<netVars, protoVars>>

\* ================================================================ fan-out
\* spawn_client_handler, the arms of the first receive(): only ServerHello
\* pushes a ConnectedClientInfo
HelloOutcomePushAlways(cl, c, first) == Append(cl, [id |-> c])

HelloOutcome(cl, c, first) ==
    IF first = "ServerHello" THEN Append(cl, [id |-> c]) ELSE cl

\* (mutant of RemoveClient) remove the oldest record instead of the handler's
RemoveClientFirst(cl, c) == IF cl = <<>> THEN cl ELSE Tail(cl)

\* spawn_client_handler lines 347-352: remove the record at position(id == client_id)
RemoveClient(cl, c) ==
    IF InClients(cl, c)
    THEN LET pos == CHOOSE i \in 1..Len(cl) :
                        cl[i].id = c /\ \A j \in 1..(i - 1) : cl[j].id # c
         IN  SubSeq(cl, 1, pos - 1) \o SubSeq(cl, pos + 1, Len(cl))
    ELSE cl

\* The handler task of c ends (its receiver and socket are dropped).
ExitConn(r, h) == [r EXCEPT !.pc = "done", !.term_at = Len(h)]

\* (mutant of Written) the packet is put in front of what was written before
WrittenInFront(r, kind, idx) == [r EXCEPT !.sent = <<[kind |-> kind, idx |-> idx]>> \o @]

\* A successful kmf_protocol::send of a packet built from hub message idx.
Written(r, kind, idx) == [r EXCEPT !.sent = Append(@, [kind |-> kind, idx |-> idx])]

\* network loop: TransportFactory::bind_server
NetBind(ok) ==
    /\ net_pc = "bind"
    /\ net_pc' = IF ok THEN "head" ELSE "done"
    /\ UNCHANGED <<serviceVars, driverVars, tx_open, hub, conn, clients, stoppers,
                   protoVars>>

\* network loop: `while running.load()`; false leaves the loop and publishes Quit
NetLoopHead ==
    /\ net_pc = "head"
    /\ IF running
       THEN net_pc' = "accept" /\ hub' = hub
       ELSE net_pc' = "done" /\ hub' = Broadcast(hub, conn, "Quit")
    /\ UNCHANGED <<serviceVars, driverVars, tx_open, conn, clients, stoppers,
                   protoVars>>

\* network loop: accept() returned a connection; subscribe, register the stop
\* sender, spawn the handler.  Peer addresses are distinct, taken in order.
NetAccept(c) ==
    /\ net_pc = "accept"
    /\ conn[c].pc = "none"
    /\ \A d \in Conns : d < c => conn[d].pc # "none"
    /\ conn' = [conn EXCEPT ![c] = [@ EXCEPT !.pc = "hello",
                                            !.rx_pos = Len(hub) + 1,
                                            !.sub_pos = Len(hub) + 1]]
    /\ stoppers' = stoppers \cup {c}
    /\ net_pc' = "head"
    /\ UNCHANGED <<serviceVars, driverVars, tx_open, hub, clients, protoVars>>

\* network loop: the 500 ms timeout of accept() (or an accept error)
NetAcceptTimeout ==
    /\ net_pc = "accept"
    /\ net_pc' = "head"
    /\ UNCHANGED <<serviceVars, driverVars, tx_open, hub, conn, clients, stoppers,
                   protoVars>>

\* handler of c: the first receive() returned; first is what it returned
ClientHello(c, first) ==
    /\ conn[c].pc = "hello"
    /\ clients' = HelloOutcome(clients, c, first)
    /\ conn' = [conn EXCEPT ![c] =
                  IF first = "ServerHello"
                  THEN [@ EXCEPT !.pc = "stream", !.helloed = TRUE]
                  ELSE ExitConn(@, hub)]
    /\ UNCHANGED <<serviceVars, driverVars, net_pc, tx_open, hub, stoppers, protoVars>>

\* handler of c, select! arm stop_rx: send ClientQuit (result ignored), leave
\* the loop, remove the client record and the stop sender
ClientStop(c, ok) ==
    /\ conn[c].pc = "stream"
    /\ conn[c].stop_sig
    /\ conn' = [conn EXCEPT ![c] =
                  ExitConn(IF ok THEN Written(@, "ClientQuit", 0) ELSE @, hub)]
    /\ clients' = RemoveClient(clients, c)
    /\ stoppers' = stoppers \ {c}
    /\ UNCHANGED <<serviceVars, driverVars, net_pc, tx_open, hub, protoVars>>

\* handler of c, select! arm rx.recv(): ok is the outcome of the socket write
ClientRecv(c, ok) ==
    /\ conn[c].pc = "stream"
    /\ conn[c].rx_pos <= Len(hub)
    /\ IF Len(hub) - conn[c].rx_pos + 1 > HubCapacity
       THEN \* Err(Lagged): the `_ => {}` arm; the receiver skips to the oldest kept
            /\ conn' = [conn EXCEPT ![c].rx_pos = Len(hub) - HubCapacity + 1]
            /\ UNCHANGED <<clients, stoppers>>
       ELSE LET i == conn[c].rx_pos
                msg == hub[i]
                r == [conn[c] EXCEPT !.rx_pos = i + 1]
            IN  IF msg = "Quit"
                THEN /\ conn' = [conn EXCEPT ![c] =
                           ExitConn(IF ok THEN Written(r, "ClientQuit", i) ELSE r, hub)]
                     /\ clients' = RemoveClient(clients, c)
                     /\ stoppers' = stoppers \ {c}
                ELSE IF ok
                THEN /\ conn' = [conn EXCEPT ![c] =
                           [Written(r, msg, i) EXCEPT
                               !.pc = IF msg = "Action" THEN "ack" ELSE "stream"]]
                     /\ UNCHANGED <<clients, stoppers>>
                ELSE /\ conn' = [conn EXCEPT ![c] = ExitConn(r, hub)]
                     /\ clients' = RemoveClient(clients, c)
                     /\ stoppers' = stoppers \ {c}
    /\ UNCHANGED <<serviceVars, driverVars, net_pc, tx_open, hub, protoVars>>

\* handler of c: `let _ = receive(&mut socket).await` after an Action returned
\* (a packet or an error, both ignored)
ClientAck(c) ==
    /\ conn[c].pc = "ack"
    /\ conn' = [conn EXCEPT ![c].pc = "stream"]
    /\ UNCHANGED <<serviceVars, driverVars, net_pc, tx_open, hub, clients, stoppers,
                   protoVars>>

\* MasterService::disconnect_client(id)
DisconnectClient(c) ==
    /\ IF c \in stoppers
       THEN /\ stoppers' = stoppers \ {c}
            /\ conn' = [conn EXCEPT ![c].stop_sig = TRUE]
       ELSE UNCHANGED <<stoppers, conn>>
    /\ UNCHANGED <<serviceVars, driverVars, net_pc, tx_open, hub, clients, protoVars>>

\* MasterService::send_file(path) past its two early returns
SendFile ==
    /\ running
    /\ tx_open
    /\ Len(hub) < MaxPublished
    /\ hub' = Broadcast(hub, conn, "File")
    /\ UNCHANGED <<serviceVars, driverVars, net_pc, tx_open, conn, clients, stoppers,
                   protoVars>>

\* driver loop: send_network_action for an event routed to the network.  The
\* cursor state that routes it, and the end of the driver loop, are the
\* subject of Spec; here the loop is a publisher that stays.
DriverPublish ==
    /\ drv_pc \in {"check", "batch"}
    /\ Len(hub) < MaxPublished
    /\ hub' = Broadcast(hub, conn, "Action")
    /\ UNCHANGED <<serviceVars, driverVars, net_pc, tx_open, conn, clients, stoppers,
                   protoVars>>

NextNet ==
    \/ Start(0)
    \/ Stop
    \/ \E ok \in BOOLEAN : NetBind(ok)
    \/ NetLoopHead
    \/ \E c \in Conns : NetAccept(c)
    \/ NetAcceptTimeout
    \/ \E c \in Conns : \E first \in {"ServerHello", "other", "error"} : ClientHello(c, first)
    \/ \E c \in Conns : \E ok \in BOOLEAN : ClientStop(c, ok)
    \/ \E c \in Conns : \E ok \in BOOLEAN : ClientRecv(c, ok)
    \/ \E c \in Conns : ClientAck(c)
    \/ \E c \in Conns : DisconnectClient(c)
    \/ SendFile
    \/ DriverPublish

SpecNet == Init /\ [][NextNet]_vars

\* ------------------------------------------------- a slow subscriber
\* The most messages the hub is followed for: past its capacity.
MaxBacklog == HubCapacity + MaxPublished + 1

\* (mutant of DriverFlood) a bounded queue with back-pressure: the send waits
\* until every receiver has room for the message
DriverFloodBackPressure ==
    /\ drv_pc \in {"check", "batch"}
    /\ tx_open
    /\ Len(hub) < MaxBacklog
    /\ \A c \in Receivers(conn) : Len(hub) - conn[c].rx_pos + 1 < HubCapacity
    /\ hub' = Broadcast(hub, conn, "Action")
    /\ UNCHANGED <<serviceVars, driverVars, net_pc, tx_open, conn, clients, stoppers,
                   protoVars>>

\* driver loop: send_network_action, as long as the operator keeps typing
DriverFlood ==
    /\ drv_pc \in {"check", "batch"}
    /\ tx_open
    /\ Len(hub) < MaxBacklog
    /\ hub' = Broadcast(hub, conn, "Action")
    /\ UNCHANGED <<serviceVars, driverVars, net_pc, tx_open, conn, clients, stoppers,
                   protoVars>>

\* One client whose handler may fall behind the driver loop's publications.
NextFlood ==
    \/ Start(0)
    \/ NetBind(TRUE)
    \/ NetLoopHead
    \/ NetAccept(1)
    \/ ClientHello(1, "ServerHello")
    \/ \E ok \in BOOLEAN : ClientRecv(1, ok)
    \/ ClientAck(1)
    \/ DriverFlood

SpecFlood == Init /\ [][NextFlood]_vars

\* ------------------------------------- the hub with all of its publishers
\* The most messages the hub is followed for.
MaxHub == MaxPublished + 1

\* What the operator does: confirm calibration, move right, click.
HubEvents ==
    {[type |-> "KeyboardPress", key |-> CALIBRATION_KEY, pressed |-> TRUE],
     [type |-> "MouseMove", x |-> 1, y |-> 0, wheel |-> 0],
     [type |-> "MouseClick", button |-> "Left", pressed |-> TRUE]}

\* MasterService::send_file(path), with its result
SendFileCall ==
    /\ Len(hub) < MaxHub
    /\ api' = [seq |-> 1 - api.seq,
               result |-> IF ~running THEN "Master is not running"
                          ELSE IF ~tx_open THEN "Master is not ready"
                          ELSE IF Receivers(conn) = {} THEN "No clients connected"
                          ELSE "Ok"]
    /\ hub' = IF running /\ tx_open THEN Broadcast(hub, conn, "File") ELSE hub
    /\ UNCHANGED <<serviceVars, driverVars, net_pc, tx_open, conn, clients, stoppers,
                   fr, cd, mark, orphans, slave, wire, svc>>

\* MasterService::disconnect_client(id) for an id that has a stop sender
DisconnectAt(c) ==
    /\ c \in stoppers
    /\ stoppers' = stoppers \ {c}
    /\ conn' = [conn EXCEPT ![c].stop_sig = TRUE]
    /\ mark' = IF conn[c].pc = "stream" THEN [mark EXCEPT ![c] = Len(conn[c].sent)]
               ELSE mark
    /\ UNCHANGED <<serviceVars, driverVars, net_pc, tx_open, hub, clients,
                   fr, cd, api, orphans, slave, wire, svc>>

\* driver loop: handle_event on one of the operator's events (devices that
\* grab and ungrab without failing), while the hub is followed
HubEvent(ev) ==
    /\ Len(hub) < MaxHub
    /\ HandleEvent(ev, num_devices)

\* The driver loop, the network loop, one client and the file sender.
NextHub ==
    \/ Start(1)
    \/ Stop
    \/ \E b \in 0..MaxBatch : DriverPoll(b)
    \/ \E ev \in HubEvents : HubEvent(ev)
    \/ DriverExit(num_devices)
    \/ NetBind(TRUE)
    \/ NetLoopHead
    \/ NetAccept(1)
    \/ NetAcceptTimeout
    \/ ClientHello(1, "ServerHello")
    \/ ClientStop(1, TRUE)
    \/ ClientRecv(1, TRUE)
    \/ ClientAck(1)
    \/ SendFileCall

SpecHub == Init /\ [][NextHub]_vars

\* The operator disconnects clients while files are being sent.
NextKick ==
    \/ Start(0)
    \/ NetBind(TRUE)
    \/ NetLoopHead
    \/ \E c \in Conns : NetAccept(c)
    \/ \E c \in Conns : ClientHello(c, "ServerHello")
    \/ \E c \in Conns : ClientStop(c, TRUE)
    \/ \E c \in Conns : ClientRecv(c, TRUE)
    \/ \E c \in Conns : DisconnectAt(c)
    \/ SendFileCall

SpecKick == Init /\ [][NextKick]_vars

\* ------------------------------------------------ start() after stop()
\* The loops spawned by earlier start() calls keep their clones of the one
\* Arc<AtomicBool> `running` of the service; orphans[g] is the position of
\* the g-th pair: drv in {"check", "done"}, net as net_pc.
Listening(pc) == pc \in {"head", "accept"}

\* MasterService::start on a service that was started before: the flag is
\* false, so the call goes through whether or not the earlier loops are
\* done; they are left to themselves (their JoinHandles are overwritten)
Restart ==
    /\ ~running
    /\ drv_pc # "none"
    /\ Len(orphans) < MaxRestarts
    /\ orphans' = Append(orphans, [drv |-> IF drv_pc = "done" THEN "done" ELSE "check",
                                   net |-> net_pc])
    /\ running' = TRUE
    /\ status' = StatusReset(status)
    /\ num_devices' = 0
    /\ ctx' = CtxNew(StatusReset(status).master_width, StatusReset(status).master_height)
    /\ drv_pc' = "check"
    /\ batch_left' = 0
    /\ tx_open' = TRUE
    /\ hub' = <<>>
    /\ net_pc' = "bind"
    /\ UNCHANGED <<dev_grabbed, out, failsafe_fired, crossings>>
    /\ UNCHANGED <<conn, clients, stoppers, fr, cd, api, mark, slave, wire, svc>>

\* network loop of the latest start(): bind_server("0.0.0.0:8081") cannot
\* succeed while an earlier network loop still holds its listener
NetBindPort(ok) ==
    /\ ok => \A g \in 1..Len(orphans) : ~Listening(orphans[g].net)
    /\ NetBind(ok)

\* driver loop of an earlier start(): `while running.load()` false
OrphanDriverExit(g) ==
    /\ g \in 1..Len(orphans)
    /\ orphans[g].drv = "check"
    /\ ~running
    /\ orphans' = [orphans EXCEPT ![g].drv = "done"]
    /\ status' = [status EXCEPT !.running = FALSE, !.remote_mode = FALSE]
    /\ UNCHANGED <<running, driverVars, netVars, fr, cd, api, mark, slave, wire, svc>>

\* network loop of an earlier start(): bind, `while running.load()`, the
\* 500 ms timeout of accept()
OrphanNetStep(g, ok) ==
    /\ g \in 1..Len(orphans)
    /\ orphans[g].net \in {"bind", "head", "accept"}
    /\ orphans' = [orphans EXCEPT ![g].net =
           CASE @ = "bind" ->
                    IF /\ ok
                       /\ ~Listening(net_pc)
                       /\ \A h \in 1..Len(orphans) : ~Listening(orphans[h].net)
                    THEN "head" ELSE "done"
             [] @ = "head" -> IF running THEN "accept" ELSE "done"
             [] OTHER -> "head"]
    /\ UNCHANGED <<serviceVars, driverVars, netVars, fr, cd, api, mark, slave, wire, svc>>

NextLife ==
    \/ Start(0)
    \/ Stop
    \/ Restart
    \/ DriverExit(0)
    \/ \E ok \in BOOLEAN : NetBindPort(ok)
    \/ NetLoopHead
    \/ NetAcceptTimeout
    \/ \E g \in 1..MaxRestarts : OrphanDriverExit(g)
    \/ \E g \in 1..MaxRestarts : \E ok \in BOOLEAN : OrphanNetStep(g, ok)

\* Every loop takes its next step (the 10 ms sleep and the 500 ms accept
\* timeout are bounded); nothing obliges the operator to call the service.
FairLife ==
    /\ WF_vars(DriverExit(0))
    /\ WF_vars(\E ok \in BOOLEAN : NetBindPort(ok))
    /\ WF_vars(NetLoopHead)
    /\ WF_vars(NetAcceptTimeout)
    /\ \A g \in 1..MaxRestarts : WF_vars(OrphanDriverExit(g))
    /\ \A g \in 1..MaxRestarts : WF_vars(\E ok \in BOOLEAN : OrphanNetStep(g, ok))

SpecLife == Init /\ [][NextLife]_vars /\ FairLife

\* ------------------------------------------- the fan-out, with scheduling
\* The network loop and every handler take their next step when they can.
\* A handler's first receive() and its receive() after an Action return when
\* the peer sends or closes, which nothing obliges a peer to do; nothing
\* obliges the operator or the driver loop to act either.
FairNet ==
    /\ WF_vars(\E ok \in BOOLEAN : NetBind(ok))
    /\ WF_vars(NetLoopHead)
    /\ WF_vars(NetAcceptTimeout)
    /\ \A c \in Conns : WF_vars(\E ok \in BOOLEAN : ClientStop(c, ok))
    /\ \A c \in Conns : WF_vars(\E ok \in BOOLEAN : ClientRecv(c, ok))

SpecNetFair == Init /\ [][NextNet]_vars /\ FairNet

\* ------------------------------------------------- a slave and its handler
\* SlaveService::run_client_internal of the peer behind connection 1.
\* slave.stage: "off", "hello" (connected), "writer" (hello sent), "loop",
\* "closed"; slave.tx lists the packets it transmitted, slave.seen counts the
\* master's packets it has handled.

\* (mutant of SlaveReply) the slave introduces itself again with every answer
SlaveReplyHello(kind, ok) ==
    IF kind = "ClientQuit" THEN <<>> ELSE <<"ServerHello">>

\* handle_packet: what the slave transmits for a packet of the master; ok is
\* the outcome of receive_file
SlaveReply(kind, ok) ==
    CASE kind = "Action" -> <<"Ok">>
      [] kind = "File" -> IF ok THEN <<"Ok">> ELSE <<"Err">>
      [] OTHER -> <<>>

\* run_client_internal: TransportFactory::connect_client succeeded
SlaveConnect ==
    /\ slave.stage = "off"
    /\ Listening(net_pc)
    /\ slave' = [slave EXCEPT !.stage = "hello"]
    /\ UNCHANGED <<serviceVars, driverVars, netVars, fr, cd, api, mark, orphans, wire, svc>>

\* run_client_internal: send(Packet::ServerHello(config)); an Err returns
SlaveSendHello(ok) ==
    /\ slave.stage = "hello"
    /\ slave' = IF ok THEN [slave EXCEPT !.stage = "writer", !.tx = Append(@, "ServerHello")]
                ELSE [slave EXCEPT !.stage = "closed"]
    /\ UNCHANGED <<serviceVars, driverVars, netVars, fr, cd, api, mark, orphans, wire, svc>>

\* run_client_internal: DriverWriter::new; an Err returns
SlaveInitWriter(ok) ==
    /\ slave.stage = "writer"
    /\ slave' = [slave EXCEPT !.stage = IF ok THEN "loop" ELSE "closed"]
    /\ UNCHANGED <<serviceVars, driverVars, netVars, fr, cd, api, mark, orphans, wire, svc>>

\* run_client_internal: receive() returned the master's next packet;
\* handle_packet answers it, ClientQuit ends the loop
SlaveHandle(ok) ==
    /\ slave.stage = "loop"
    /\ slave.seen < Len(conn[1].sent)
    /\ LET kind == conn[1].sent[slave.seen + 1].kind IN
       slave' = [stage |-> IF kind = "ClientQuit" THEN "closed" ELSE "loop",
                 tx |-> slave.tx \o SlaveReply(kind, ok),
                 seen |-> slave.seen + 1]
    /\ UNCHANGED <<serviceVars, driverVars, netVars, fr, cd, api, mark, orphans, wire, svc>>

\* run_client_internal: `while running.load()` false (SlaveService::stop)
SlaveStop ==
    /\ slave.stage = "loop"
    /\ slave' = [slave EXCEPT !.stage = "closed"]
    /\ UNCHANGED <<serviceVars, driverVars, netVars, fr, cd, api, mark, orphans, wire, svc>>

\* network loop: accept() returns the slave's connection
LinkAccept ==
    /\ slave.stage # "off"
    /\ NetAccept(1)

\* handler: its first receive() returns what the slave sent first, or an
\* error once the slave has closed without sending
LinkHello ==
    /\ slave.stage # "off"
    /\ \/ slave.tx # <<>> /\ ClientHello(1, slave.tx[1])
       \/ slave.tx = <<>> /\ slave.stage = "closed" /\ ClientHello(1, "error")

\* handler: the receive() after an Action returns the slave's answer, or an
\* error once the slave has closed
LinkAck ==
    /\ slave.stage = "closed" \/ slave.seen = Len(conn[1].sent)
    /\ ClientAck(1)

NextLink ==
    \/ Start(0)
    \/ Stop
    \/ NetBind(TRUE)
    \/ NetLoopHead
    \/ NetAcceptTimeout
    \/ SlaveConnect
    \/ \E ok \in BOOLEAN : SlaveSendHello(ok)
    \/ \E ok \in BOOLEAN : SlaveInitWriter(ok)
    \/ \E ok \in BOOLEAN : SlaveHandle(ok)
    \/ SlaveStop
    \/ LinkAccept
    \/ LinkHello
    \/ LinkAck
    \/ \E ok \in BOOLEAN : ClientStop(1, ok)
    \/ \E ok \in BOOLEAN : ClientRecv(1, ok)
    \/ SendFileCall
    \/ DriverPublish

SpecLink == Init /\ [][NextLink]_vars

\* ------------------------------- the master's handler, packet by packet
\* wire follows the streaming loop of one handler of the master (after its
\* ServerHello arm pushed the client record):
\*   pc       "select" (top of the loop), "ack" (receive after an Action),
\*            "file_data" / "file_ack" (inside file_transfer::send_file), "done"
\*   sent     the packets written to the socket, each with the number of
\*            packets read from the socket before it
\*   reads    packets read from the socket
\*   unacked  Actions written for which no packet has been read since
\*   last     what the read of the last step returned ("Ok", "Err", "other",
\*            "fail"), "none" if the last step read nothing; after is "Action"
\*            or "File"
\*   listed   the client record is in the connected-client list
\*   handled  hub messages taken
wireFrame == <<serviceVars, driverVars, netVars, fr, cd, api, mark, orphans, slave, svc>>

Replies == {"Ok", "Err", "other", "fail"}

InitWire ==
    /\ InitService /\ InitDriver /\ InitNet
    /\ fr = FrIdle /\ cd = CdIdle
    /\ api = ApiIdle /\ mark = [c \in Conns |-> -1] /\ orphans = <<>>
    /\ slave = SlaveIdle /\ svc = SvcIdle
    /\ wire = [pc |-> "select", sent |-> <<>>, reads |-> 0, unacked |-> 0,
               last |-> "none", after |-> "none", listed |-> TRUE, handled |-> 0]

\* a successful kmf_protocol::send of one packet
Put(w, kind) == [w EXCEPT !.sent = Append(@, [kind |-> kind, reads |-> w.reads])]

\* `break`, then lines 346-357: the record and the stop sender are removed
Leave(w) == [w EXCEPT !.pc = "done", !.listed = FALSE]

\* what a receive() that returned r did to the socket
Read(w, r, what) ==
    [w EXCEPT !.reads = IF r = "fail" THEN @ ELSE @ + 1, !.last = r, !.after = what]

Quiet(w) == [w EXCEPT !.last = "none", !.after = "none"]

\* (mutant of SendFileNext) a refused drop is sent again
SendFileNextRetry(stage, res) ==
    CASE stage = "start" -> IF res = "Ok" THEN "file_data" ELSE "done"
      [] stage = "file_data" -> IF res = "Ok" THEN "file_ack" ELSE "done"
      [] OTHER -> IF res = "Ok" THEN "select"
                  ELSE IF res = "Err" THEN "file_data" ELSE "done"

\* file_transfer::send_file inside the handler's File arm: where the handler
\* is after a stage returned res.  "start": read_file and send(DropSend);
\* "file_data": send(Data); "file_ack": the match on receive().  Every Err of
\* send_file makes the handler break.
SendFileNext(stage, res) ==
    CASE stage = "start" -> IF res = "Ok" THEN "file_data" ELSE "done"
      [] stage = "file_data" -> IF res = "Ok" THEN "file_ack" ELSE "done"
      [] OTHER -> IF res = "Ok" THEN "select" ELSE "done"

\* where the handler is after stage stage of send_file returned res
AfterFileStage(w, stage, res) ==
    LET pc == SendFileNext(stage, res) IN
    IF pc = "done" THEN Leave(w) ELSE [w EXCEPT !.pc = pc]

\* select! arm stop_rx, or Ok(ServerMessage::Quit): ClientQuit, break
WireQuit(ok) ==
    /\ wire.pc = "select"
    /\ wire' = Leave(Quiet(IF ok THEN Put(wire, "ClientQuit") ELSE wire))
    /\ UNCHANGED wireFrame

\* Ok(ServerMessage::Action): send, break on a write error
WireAction(ok) ==
    /\ wire.pc = "select"
    /\ wire.handled < MaxFrames + 1
    /\ wire' = IF ok
               THEN [Quiet(Put(wire, "Action")) EXCEPT !.pc = "ack", !.unacked = @ + 1,
                                                        !.handled = @ + 1]
               ELSE Leave(Quiet(wire))
    /\ UNCHANGED wireFrame

\* `let _ = kmf_protocol::receive(&mut socket).await;` returned r
WireAck(r) ==
    /\ wire.pc = "ack"
    /\ wire' = [Read(wire, r, "Action") EXCEPT
                   !.pc = "select",
                   !.unacked = IF r = "fail" THEN @ ELSE @ - 1]
    /\ UNCHANGED wireFrame

\* Ok(ServerMessage::File): send_file up to send(DropSend)
WireFile(read_ok, ok) ==
    /\ wire.pc = "select"
    /\ wire.handled < MaxFrames + 1
    /\ wire' = AfterFileStage(
                   [Quiet(IF read_ok /\ ok THEN Put(wire, "DropSend") ELSE wire)
                       EXCEPT !.handled = @ + 1],
                   "start", IF read_ok /\ ok THEN "Ok" ELSE "fail")
    /\ UNCHANGED wireFrame

\* send_file: send(Data)
WireData(ok) ==
    /\ wire.pc = "file_data"
    /\ wire' = AfterFileStage(Quiet(IF ok THEN Put(wire, "Data") ELSE wire),
                              "file_data", IF ok THEN "Ok" ELSE "fail")
    /\ UNCHANGED wireFrame

\* send_file: receive() returned r
WireFileAck(r) ==
    /\ wire.pc = "file_ack"
    /\ wire' = AfterFileStage(Read(wire, r, "File"), "file_ack", r)
    /\ UNCHANGED wireFrame

NextWire ==
    \/ \E ok \in BOOLEAN : WireQuit(ok)
    \/ \E ok \in BOOLEAN : WireAction(ok)
    \/ \E r \in Replies : WireAck(r)
    \/ \E read_ok, ok \in BOOLEAN : WireFile(read_ok, ok)
    \/ \E ok \in BOOLEAN : WireData(ok)
    \/ \E r \in Replies : WireFileAck(r)

SpecWire == InitWire /\ [][NextWire]_vars

\* ------------------------------------------------------- SlaveService
\* svc follows one SlaveService:
\*   flag     SlaveService.running (Arc<AtomicBool>)
\*   st       SlaveStatus behind its mutex
\*   task     the spawned task: "none", at an await ("connect", "hello",
\*            "loop"), inside a poll ("upd": connect_client returned Ok and
\*            lines 139-143 come next; "fail": an Err is on its way out), "done"
\*   abort    JoinHandle::abort was called on the task; it takes effect at
\*            the task's next await, a poll that is running goes on to it
\*   own      the task ended by itself (not cancelled)
\*   result   what the last start() returned
\*   starts, packets   how many start() calls were accepted, packets handled
svcFrame == <<serviceVars, driverVars, netVars, fr, cd, api, mark, orphans, slave, wire>>

StatusCleared == [running |-> FALSE, connecting |-> FALSE, connected |-> FALSE]

InitSvc ==
    /\ InitService /\ InitDriver /\ InitNet
    /\ fr = FrIdle /\ cd = CdIdle
    /\ api = ApiIdle /\ mark = [c \in Conns |-> -1] /\ orphans = <<>>
    /\ slave = SlaveIdle /\ wire = WireIdle
    /\ svc = [stage |-> "on", flag |-> FALSE, st |-> StatusCleared, task |-> "none",
              abort |-> FALSE, own |-> FALSE, result |-> "none", starts |-> 0,
              packets |-> 0]

\* SlaveService::start
SvcStart ==
    /\ svc.task \in {"none", "done"}
    /\ svc.starts < MaxRestarts + 1
    /\ svc' = IF svc.flag
              THEN [svc EXCEPT !.result = "Slave is already running",
                               !.starts = @ + 1]
              ELSE [svc EXCEPT !.flag = TRUE,
                               !.st = [running |-> TRUE, connecting |-> TRUE,
                                       connected |-> FALSE],
                               !.task = "connect", !.abort = FALSE, !.own = FALSE,
                               !.result = "Ok", !.starts = @ + 1, !.packets = 0]
    /\ UNCHANGED svcFrame

\* SlaveService::stop, on any thread of the runtime
SvcStop ==
    /\ svc.flag
    /\ svc' = [svc EXCEPT !.flag = FALSE,
                          !.abort = svc.task \notin {"none", "done"},
                          !.st = StatusCleared]
    /\ UNCHANGED svcFrame

\* the task: TransportFactory::connect_client returns
TaskConnect(ok) ==
    /\ svc.task = "connect"
    /\ ~svc.abort
    /\ svc' = [svc EXCEPT !.task = IF ok THEN "upd" ELSE "fail"]
    /\ UNCHANGED svcFrame

\* the task, lines 139-143, then the await of send(ServerHello)
TaskConnected ==
    /\ svc.task = "upd"
    /\ svc' = [svc EXCEPT !.st = [@ EXCEPT !.connecting = FALSE, !.connected = TRUE],
                          !.task = "hello"]
    /\ UNCHANGED svcFrame

\* the task: send(ServerHello) and DriverWriter::new return
TaskHello(ok) ==
    /\ svc.task = "hello"
    /\ ~svc.abort
    /\ svc' = [svc EXCEPT !.task = IF ok THEN "loop" ELSE "fail"]
    /\ UNCHANGED svcFrame

\* the task: run_client_internal returned Err; lines 132-134, 87-90, 93-96
TaskFailed ==
    /\ svc.task = "fail"
    /\ svc' = [svc EXCEPT !.st = StatusCleared, !.task = "done", !.own = TRUE]
    /\ UNCHANGED svcFrame

\* the task in its receive loop: a packet was handled ("packet"), ClientQuit
\* was received ("leave": lines 193-197, 93-96), or
\* handle_packet returned Err ("error")
TaskLoop(what) ==
    /\ svc.task = "loop"
    /\ ~svc.abort
    /\ what = "packet" => svc.packets < MaxFrames
    /\ svc' = CASE what = "packet" -> [svc EXCEPT !.packets = @ + 1]
                [] what = "leave" -> [svc EXCEPT !.st = StatusCleared, !.task = "done",
                                                 !.own = TRUE]
                [] OTHER -> [svc EXCEPT !.task = "fail"]
    /\ UNCHANGED svcFrame

\* the task is cancelled at an await: nothing of it runs any more
TaskCancelled ==
    /\ svc.abort
    /\ svc.task \in {"connect", "hello", "loop"}
    /\ svc' = [svc EXCEPT !.task = "done", !.abort = FALSE]
    /\ UNCHANGED svcFrame

NextSvc ==
    \/ SvcStart
    \/ SvcStop
    \/ \E ok \in BOOLEAN : TaskConnect(ok)
    \/ TaskConnected
    \/ \E ok \in BOOLEAN : TaskHello(ok)
    \/ TaskFailed
    \/ \E what \in {"packet", "leave", "error"} : TaskLoop(what)
    \/ TaskCancelled

SpecSvc == InitSvc /\ [][NextSvc]_vars

\* --------------------------------------- one connection, packet by packet
\* A slave in its receive loop and the server it is connected to.  Here the
\* slave record also carries
\*   inbox   the packets the server has sent, in order
\*   mpc     the server side: "idle", "ack" (reply to an Action awaited),
\*           "file_ack" (file_transfer::send_file awaits its reply)
\*   rd      how many of the slave's packets the server has read
\*   acts    per handled packet: its kind, whether the fallible step of
\*           handling it succeeded, what the slave transmitted for it
\*   drops   per send_file on the server: the reply read and the result
slaveFrame == <<serviceVars, driverVars, netVars, fr, cd, api, mark, orphans, wire, svc>>

\* The kinds a peer can send besides Action, DropSend + Data and ClientQuit.
OtherKinds == {"Ok", "Err", "ServerHello", "Data", "DropRequest", "EdgeL", "EdgeR"}

InitServe ==
    /\ InitService /\ InitDriver /\ InitNet
    /\ fr = FrIdle /\ cd = CdIdle
    /\ api = ApiIdle /\ mark = [c \in Conns |-> -1] /\ orphans = <<>>
    /\ wire = WireIdle /\ svc = SvcIdle
    /\ slave = [stage |-> "loop", tx |-> <<>>, seen |-> 0, inbox |-> <<>>,
                mpc |-> "idle", rd |-> 0, acts |-> <<>>, drops |-> <<>>]

\* (mutant of HandlePacket) no acknowledgement when the action was not simulated
HandlePacketAckOnSuccess(kind, next, ok) ==
    IF kind = "Action"
    THEN [replies |-> IF ok THEN <<"Ok">> ELSE <<>>, used |-> 1, quit |-> FALSE,
          saved |-> FALSE]
    ELSE [replies |-> <<>>, used |-> 1, quit |-> kind = "ClientQuit", saved |-> FALSE]

\* handle_packet (with file_transfer::receive_file for DropSend): what the
\* slave transmits for a packet, how many packets it consumes, whether its
\* loop ends, whether a file was saved.  next is the packet that follows; ok
\* is the outcome of the fallible step (decoding and simulating an action,
\* save_file, read_file).
HandlePacket(kind, next, ok) ==
    CASE kind = "Action" ->
           [replies |-> <<"Ok">>, used |-> 1, quit |-> FALSE, saved |-> FALSE]
      [] kind = "DropSend" ->
           IF next = "Data" /\ ok
           THEN [replies |-> <<"Ok">>, used |-> 2, quit |-> FALSE, saved |-> TRUE]
           ELSE [replies |-> <<"Err">>, used |-> 2, quit |-> FALSE, saved |-> FALSE]
      [] kind = "DropRequest" ->
           [replies |-> IF ok THEN <<"Data">> ELSE <<"Err">>, used |-> 1,
            quit |-> FALSE, saved |-> FALSE]
      [] kind \in {"EdgeL", "EdgeR"} ->
           [replies |-> <<"Ok">>, used |-> 1, quit |-> FALSE, saved |-> FALSE]
      [] kind = "ClientQuit" ->
           [replies |-> <<>>, used |-> 1, quit |-> TRUE, saved |-> FALSE]
      [] OTHER ->
           [replies |-> <<>>, used |-> 1, quit |-> FALSE, saved |-> FALSE]

\* (mutant of SendFileOutcome) any reply counts as an acknowledgement
SendFileOutcomeAnyReply(reply) == TRUE

\* file_transfer::send_file, the match on the reply: Ok(()) only for Packet::Ok
SendFileOutcome(reply) == reply = "Ok"

\* the server forwards an Action and awaits the reply
ServeAction ==
    /\ slave.mpc = "idle"
    /\ Len(slave.inbox) < MaxFrames + 1
    /\ slave' = [slave EXCEPT !.inbox = Append(@, "Action"), !.mpc = "ack"]
    /\ UNCHANGED slaveFrame

\* the server runs file_transfer::send_file: DropSend, Data, then the reply
ServeFile ==
    /\ slave.mpc = "idle"
    /\ Len(slave.inbox) <= MaxFrames
    /\ slave' = [slave EXCEPT !.inbox = @ \o <<"DropSend", "Data">>, !.mpc = "file_ack"]
    /\ UNCHANGED slaveFrame

\* the server sends a packet it awaits no reply to
ServeOther(kind) ==
    /\ slave.mpc = "idle"
    /\ Len(slave.inbox) < MaxFrames + 1
    /\ slave' = [slave EXCEPT !.inbox = Append(@, kind)]
    /\ UNCHANGED slaveFrame

\* the server's receive() returns the slave's next packet
ServeReadReply ==
    /\ slave.mpc \in {"ack", "file_ack"}
    /\ slave.rd < Len(slave.tx)
    /\ slave' = [slave EXCEPT
           !.rd = @ + 1,
           !.mpc = "idle",
           !.drops = IF slave.mpc = "file_ack"
                     THEN Append(@, [reply |-> slave.tx[slave.rd + 1],
                                     success |-> SendFileOutcome(slave.tx[slave.rd + 1])])
                     ELSE @]
    /\ UNCHANGED slaveFrame

\* the slave's receive() returns the next packet and handle_packet runs
ServeHandle(ok) ==
    /\ slave.stage = "loop"
    /\ slave.seen < Len(slave.inbox)
    /\ LET kind == slave.inbox[slave.seen + 1]
           next == IF slave.seen + 2 <= Len(slave.inbox)
                   THEN slave.inbox[slave.seen + 2] ELSE "none"
       IN  /\ kind = "DropSend" => next # "none"
           /\ \E r \in {HandlePacket(kind, next, ok)} :
                slave' = [slave EXCEPT
                   !.stage = IF r.quit THEN "closed" ELSE "loop",
                   !.seen = @ + r.used,
                   !.tx = @ \o r.replies,
                   !.acts = Append(@, [kind |-> kind, next |-> next, ok |-> ok,
                                       replies |-> r.replies, saved |-> r.saved])]
    /\ UNCHANGED slaveFrame

NextServe ==
    \/ ServeAction
    \/ ServeFile
    \/ \E kind \in OtherKinds \cup {"ClientQuit"} : ServeOther(kind)
    \/ ServeReadReply
    \/ \E ok \in BOOLEAN : ServeHandle(ok)

SpecServe == InitServe /\ [][NextServe]_vars

\* ============================================== receive() on a live stream
\* The frames a peer may send, and the streams made of them.
FramePackets ==
    {[kind |-> "Ok"], [kind |-> "Data", data |-> <<4>>],
     [kind |-> "Err", code |-> 1, message |-> <<97>>]}

FrameSeqs == UNION {[1..n -> FramePackets] : n \in 1..MaxFrames}

\* Offsets of the frame boundaries of the stream made of the packets ps.
RECURSIVE FrameCuts(_, _)
FrameCuts(ps, mode) ==
    IF ps = <<>> THEN {0}
    ELSE LET n == Len(SerializeWithMode(Head(ps), mode)) IN
         {0} \cup {n + c : c \in FrameCuts(Tail(ps), mode)}

\* fr: the peer will send `stream` (the frames `frames`, boundaries `cuts`);
\* `delivered` bytes have arrived, `consumed` of them were read; `closed`:
\* the peer closed after the delivered bytes.  in_recv: a receive() is in
\* progress, it started at offset `start` and has read `acc`.  last: how the
\* last receive() ended.
FrInputs ==
    {[stage |-> "on", mode |-> "Json", frames |-> ps,
      stream |-> Concat([i \in 1..Len(ps) |-> SerializeWithMode(ps[i], "Json")]),
      cuts |-> FrameCuts(ps, "Json"),
      delivered |-> 0, closed |-> FALSE, consumed |-> 0,
      in_recv |-> FALSE, acc |-> <<>>, start |-> 0,
      last |-> [kind |-> "none"]] : ps \in FrameSeqs}

InitFrame == InitService /\ InitDriver /\ InitNet /\ InitExt /\ cd = CdIdle /\ fr \in FrInputs

frameFrame == <<serviceVars, driverVars, netVars, cd, extVars>>

\* the network delivers the next k bytes of the stream
FrDeliver(k) ==
    /\ fr.stage = "on" /\ ~fr.closed
    /\ fr.delivered + k <= Len(fr.stream)
    /\ fr' = [fr EXCEPT !.delivered = @ + k]
    /\ UNCHANGED frameFrame

\* the peer closes the connection after what it has sent so far
FrClose ==
    /\ fr.stage = "on" /\ ~fr.closed
    /\ fr' = [fr EXCEPT !.closed = TRUE]
    /\ UNCHANGED frameFrame

\* run_client_internal: the loop calls receive(&mut stream) under timeout()
FrBegin ==
    /\ fr.stage = "on" /\ ~fr.in_recv
    /\ fr' = [fr EXCEPT !.in_recv = TRUE, !.acc = <<>>, !.start = fr.consumed]
    /\ UNCHANGED frameFrame

\* receive() with the bytes acc1 read, k of them by the last read: it returns
\* (r.st = "done") or goes on to wait for more
FrSettle(f, k, acc1, r) ==
    IF r.st = "done"
    THEN [f EXCEPT !.consumed = @ + k, !.acc = <<>>, !.in_recv = FALSE,
                   !.last = [kind |-> IF r.res.ok THEN "packet" ELSE "error",
                             start |-> f.start, stop |-> f.consumed + k,
                             res |-> r.res]]
    ELSE [f EXCEPT !.consumed = @ + k, !.acc = acc1]

\* the read_exact in progress takes k bytes of the stream
FrTake(f, k, acc1) == FrSettle(f, k, acc1, ReceiveOn(acc1, f.mode))

\* receive(): the read_exact in progress takes the bytes that are there, up
\* to what it wants; when receive() has all it needs it returns
FrRead ==
    /\ fr.stage = "on" /\ fr.in_recv
    /\ fr.consumed < fr.delivered
    /\ \E k \in {Min(ReceiveOn(fr.acc, fr.mode).n, fr.delivered - fr.consumed)} :
          fr' = FrTake(fr, k, fr.acc \o SubSeq(fr.stream, fr.consumed + 1, fr.consumed + k))
    /\ UNCHANGED frameFrame

\* receive(): read_exact meets the end of the stream (UnexpectedEof)
FrEof ==
    /\ fr.stage = "on" /\ fr.in_recv
    /\ fr.consumed = fr.delivered /\ fr.closed
    /\ fr' = [fr EXCEPT !.acc = <<>>, !.in_recv = FALSE,
                        !.last = [kind |-> "error", start |-> fr.start,
                                  stop |-> fr.consumed, res |-> Fail("Io")]]
    /\ UNCHANGED frameFrame

\* run_client_internal: the 200 ms timeout elapses while receive() is pending
\* on a read; the receive future is dropped with the bytes it has read
FrTimeout ==
    /\ fr.stage = "on" /\ fr.in_recv
    /\ fr.consumed = fr.delivered /\ ~fr.closed
    /\ fr' = [fr EXCEPT !.acc = <<>>, !.in_recv = FALSE,
                        !.last = [kind |-> "cancelled", start |-> fr.start,
                                  stop |-> fr.consumed]]
    /\ UNCHANGED frameFrame

NextFrame ==
    \/ \E k \in 1..(MaxFrames * 7) : FrDeliver(k)
    \/ FrClose
    \/ FrBegin
    \/ FrRead
    \/ FrEof
    \/ FrTimeout

SpecFrame == InitFrame /\ [][NextFrame]_vars

\* ================================================= the codec as functions
Texts == UNION {[1..n -> {97, 47}] : n \in 0..MaxText}
Payloads == UNION {[1..n -> {0, 255}] : n \in 0..MaxText}

\* Packet values of the ten kinds.
Packets ==
    {[kind |-> k] : k \in SimpleKinds}
    \cup {[kind |-> "Err", code |-> c, message |-> t] : c \in 0..3, t \in Texts}
    \cup {[kind |-> "ServerHello",
           config |-> [version |-> 1, screen_width |-> DefaultWidth,
                       screen_height |-> DefaultHeight, hostname |-> t]] : t \in Texts}
    \cup {[kind |-> "Action", action |-> SerializeAction(m, ActionOf(e))] :
             m \in Modes, e \in DriverEvents}
    \cup {[kind |-> k, filename |-> t] : k \in {"DropSend", "DropRequest"}, t \in Texts}
    \cup {[kind |-> "Data", data |-> d] : d \in Payloads}

\* cd: a packet to take through the codec, or a driver event to take through
\* the action pipeline, under one serialization mode.
CdInputs ==
    {[stage |-> "packet", mode |-> m, packet |-> p] : m \in Modes, p \in Packets}
    \cup {[stage |-> "event", mode |-> m, ev |-> e] : m \in Modes, e \in DriverEvents}

InitCodec == InitService /\ InitDriver /\ InitNet /\ InitExt /\ fr = FrIdle /\ cd \in CdInputs

codecFrame == <<serviceVars, driverVars, netVars, fr, extVars>>

\* Packet::serialize_with_mode
CdSerialize ==
    /\ cd.stage = "packet"
    /\ cd' = [stage |-> "wire", mode |-> cd.mode, packet |-> cd.packet, cut |-> FALSE,
              wire |-> SerializeWithMode(cd.packet, cd.mode)]
    /\ UNCHANGED codecFrame

\* only the first n bytes of the packet are delivered before the peer closes
CdTruncate(n) ==
    /\ cd.stage = "wire" /\ ~cd.cut
    /\ n < Len(cd.wire)
    /\ cd' = [cd EXCEPT !.cut = TRUE, !.wire = SubSeq(cd.wire, 1, n)]
    /\ UNCHANGED codecFrame

\* Packet::deserialize_with_mode on the buffer
CdDeserialize ==
    /\ cd.stage = "wire"
    /\ cd' = [cd EXCEPT !.stage = "decoded"] @@
             [res |-> DeserializeWithMode(cd.wire, cd.mode)]
    /\ UNCHANGED codecFrame

\* receive() on a stream that holds the buffer
CdReceive ==
    /\ cd.stage = "wire"
    /\ cd' = [cd EXCEPT !.stage = "received"] @@ [res |-> Receive(cd.wire, cd.mode)]
    /\ UNCHANGED codecFrame

\* driver loop: send_action(&action) for the event
CdSendAction ==
    /\ cd.stage = "event"
    /\ cd' = [stage |-> "message", mode |-> cd.mode, ev |-> cd.ev,
              msg |-> SendAction(cd.mode, ActionOf(cd.ev))]
    /\ UNCHANGED codecFrame

\* master handler: send(Packet::Action(action), socket)
CdSend ==
    /\ cd.stage = "message"
    /\ cd' = [stage |-> "sent", mode |-> cd.mode, ev |-> cd.ev,
              wire |-> SerializeWithMode([kind |-> "Action", action |-> cd.msg.value],
                                         cd.mode)]
    /\ UNCHANGED codecFrame

\* slave: receive(&mut stream)
CdRecvAction ==
    /\ cd.stage = "sent"
    /\ cd' = [stage |-> "got", mode |-> cd.mode, ev |-> cd.ev,
              res |-> Receive(cd.wire, cd.mode)]
    /\ UNCHANGED codecFrame

\* slave handle_packet: action_to_driver_event(action) for Packet::Action
CdToEvent ==
    /\ cd.stage = "got"
    /\ cd.res.ok /\ cd.res.packet.kind = "Action"
    /\ cd' = [stage |-> "simulated", mode |-> cd.mode, ev |-> cd.ev,
              out |-> ActionToDriverEvent(cd.mode, cd.res.packet.action)]
    /\ UNCHANGED codecFrame

NextCodec ==
    \/ CdSerialize
    \/ \E n \in (IF cd.stage = "wire" THEN 0..(Len(cd.wire) - 1) ELSE {}) : CdTruncate(n)
    \/ CdDeserialize
    \/ CdReceive
    \/ CdSendAction
    \/ CdSend
    \/ CdRecvAction
    \/ CdToEvent

SpecCodec == InitCodec /\ [][NextCodec]_vars

Next ==
    \/ \E n \in 0..MaxDevices : Start(n)
    \/ Stop
    \/ \E b \in 0..MaxBatch : DriverPoll(b)
    \/ \E ev \in DriverEvents : \E k \in SyscallOutcomes(ctx, ev, num_devices) : HandleEvent(ev, k)
    \/ \E k \in (IF ctx.inputs_grabbed THEN 0..num_devices ELSE {num_devices}) : DriverExit(k)

Spec == Init /\ [][Next]_vars

\* The driver loop on devices whose grab() and ungrab() always succeed.
NextGrabOk ==
    \/ \E n \in 0..MaxDevices : Start(n)
    \/ Stop
    \/ \E b \in 0..MaxBatch : DriverPoll(b)
    \/ \E ev \in DriverEvents : HandleEvent(ev, num_devices)
    \/ DriverExit(num_devices)

SpecGrabOk == Init /\ [][NextGrabOk]_vars

\* ==================================================================== claims
\* ------------------------------------------------------------- driver loop

\* C1 (as claimed): once the driver loop has ended (by stop(), by the failsafe,
\* with the DeviceReader dropped), no physical input device remains grabbed.
C1_UngrabbedAfterTermination ==
    drv_pc = "done" => dev_grabbed = {}

\* C2: once calibration is confirmed, after every event the virtual cursor lies in
\* [0, 2*master_width - 1] x [0, master_height - 1].
C2_CursorSaturation ==
    (drv_pc # "none" /\ ~ctx.calibration_mode) =>
        /\ 0 <= ctx.cursor_x /\ ctx.cursor_x <= 2 * ctx.master_width - 1
        /\ 0 <= ctx.cursor_y /\ ctx.cursor_y <= ctx.master_height - 1

\* C2 witness: a calibrated cursor that a mouse move has driven to the far corner
\* of the stitched space (calibration itself leaves it at master_width - 1).
C2_Witness ==
    /\ ~ctx.calibration_mode
    /\ ctx.master_width > 1
    /\ ctx.cursor_x = 2 * ctx.master_width - 1
    /\ ctx.cursor_y = ctx.master_height - 1

\* C3: the mode is Remote exactly when the clamped x position has crossed the
\* boundary master_width an odd number of times since it was Local (calibration
\* leaves the cursor Local; a run that starts Local at (0,0) is one such run).
C3_ModeParity ==
    ~ctx.calibration_mode => (ctx.remote_mode <=> crossings = 1)

\* C3 witness: calibrated at the origin (1 x 1, so the run starts Local at (0,0)),
\* then an odd number of crossings: Remote.
C3_Witness ==
    /\ ~ctx.calibration_mode
    /\ ctx.master_width = 1 /\ ctx.master_height = 1
    /\ ctx.remote_mode
    /\ crossings = 1

\* C4 (as claimed): once the failsafe (Q pressed with LeftCtrl and LeftAlt held)
\* was processed the running flag is false, and once the loop has terminated
\* after it no physical input device remains grabbed.
C4_FailsafeUngrabs ==
    /\ failsafe_fired => ~running
    /\ (failsafe_fired /\ drv_pc = "done") => dev_grabbed = {}


\* C5 (SpecNet): handshake strictness.  A handler whose first receive() did
\* not return ServerHello (another packet, or an error) ends in that step
\* without a ConnectedClient record for its connection, and the step changes
\* neither the running flag, nor the client records and stop senders of the
\* other connections, nor the hub and the other handlers' receivers and what
\* they have written.
C5_HandshakeStrictness ==
    [][\A c \in Conns :
          (conn[c].pc = "hello" /\ conn'[c].pc = "done") =>
             /\ ~InClients(clients', c)
             /\ clients' = clients
             /\ running' = running
             /\ hub' = hub
             /\ stoppers' \ {c} = stoppers \ {c}
             /\ \A d \in Conns \ {c} : conn'[d] = conn[d]]_vars

\* C5 witness: a handshake failed on c while the service runs, and the
\* streaming client d was afterwards forwarded a message published after it.
C5_Witness ==
    \E c, d \in Conns :
        /\ conn[c].pc = "done" /\ ~conn[c].helloed
        /\ running /\ InClients(clients, d) /\ ~InClients(clients, c)
        /\ \E i \in 1..Len(conn[d].sent) : conn[d].sent[i].idx > conn[c].term_at

\* What a streaming handler has written: the hub messages from its
\* subscription on, each once, in hub order.
ForwardedInOrder(d) ==
    /\ Len(conn[d].sent) = conn[d].rx_pos - conn[d].sub_pos
    /\ \A i \in 1..Len(conn[d].sent) :
          /\ conn[d].sent[i].idx = conn[d].sub_pos + i - 1
          /\ conn[d].sent[i].kind = hub[conn[d].sent[i].idx]

FrameAt(o) ==
    LET i == Cardinality({c \in fr.cuts : c <= o})
        stops == {c \in fr.cuts : c > o}
    IN  [packet |-> fr.frames[i],
         stop |-> CHOOSE c \in stops : \A d \in stops : c <= d]

\* C7 (framing robustness): on a stream that is a prefix of a sequence of
\* valid frames, a receive that returns a packet started at a frame boundary,
\* returns that frame's packet and has consumed exactly that frame's bytes;
\* and when a receive has returned a packet or has been cancelled by the
\* 200 ms timeout, the stream stands at a frame boundary for the next receive.
C7_FramingRobustness ==
    fr.stage = "on" =>
        /\ fr.last.kind = "packet" =>
              /\ fr.last.start \in fr.cuts
              /\ fr.last.start < Len(fr.stream)
              /\ fr.last.res = Got(FrameAt(fr.last.start).packet)
              /\ fr.last.stop = FrameAt(fr.last.start).stop
        /\ (fr.last.kind \in {"packet", "cancelled"} /\ ~fr.in_recv) =>
              fr.consumed \in fr.cuts

\* The length a cut buffer declares, and the bytes that follow the length
\* prefix, when the buffer holds the whole prefix.
Declared(buf) ==
    LET off == IF buf # <<>> /\ buf[1] = PacketTypeByte("Err")
               THEN ERROR_LENGTH_OFFSET ELSE PAYLOAD_LENGTH_OFFSET
    IN  IF buf # <<>> /\ PacketTypeFrom(buf[1]).ok
           /\ PacketTypeFrom(buf[1]).kind \notin SimpleKinds
           /\ Len(buf) >= off + LENGTH_PREFIX_SIZE
        THEN [known |-> TRUE,
              len |-> U32From(SubSeq(buf, off + 1, off + LENGTH_PREFIX_SIZE)),
              remaining |-> Len(buf) - (off + LENGTH_PREFIX_SIZE)]
        ELSE [known |-> FALSE]

\* C8 (truncation detection): when the declared length exceeds the bytes
\* delivered before the peer closes, receive() returns an I/O error (never a
\* packet), and deserialize_with_mode returns a truncation error whenever the
\* declared length exceeds the remaining buffer.
C8_TruncationDetection ==
    (cd.stage \in {"received", "decoded"} /\ Declared(cd.wire).known
       /\ Declared(cd.wire).len > Declared(cd.wire).remaining) =>
        /\ cd.stage = "received" => cd.res = Fail("Io")
        /\ cd.stage = "decoded" => cd.res = Fail("Truncated")

\* C9 (codec round trip): for every packet P of the ten kinds and both modes,
\* deserialize_with_mode(serialize_with_mode(P, m), m) = P and receive() on a
\* stream holding serialize_with_mode(P, m) returns P.
C9_CodecRoundTrip ==
    (cd.stage \in {"received", "decoded"} /\ ~cd.cut) => cd.res = Got(cd.packet)

\* C10 (end-to-end action delivery): in both modes, the value of
\* send_action(A), sent as Packet::Action, read with receive() and decoded with
\* action_to_driver_event gives the driver event that corresponds to A.
C10_ActionDelivery ==
    /\ cd.stage = "got" => (cd.res.ok /\ cd.res.packet.kind = "Action")
    /\ cd.stage = "simulated" => cd.out = [ok |-> TRUE, event |-> cd.ev]

\* ------------------------------------------------- driver loop, continued
\* C11 (calibration): in Calibration a mouse move adds its deltas to the
\* cursor, saturating at 0 on the low side, and leaves the dimensions alone;
\* when a press of key 46 is processed the dimensions become
\* max(cursor_x + 1, 1) x max(cursor_y + 1, 1) and the state becomes Local.
\* The deltas (+50,+30), (+10,+10), (0,0) and then 'c' give 61 x 41.
C11_Calibration ==
    /\ LET mv(c, dx, dy) ==
               HandleMouseMove(c, {}, 0, StatusDefault,
                               [type |-> "MouseMove", x |-> dx, y |-> dy, wheel |-> 0],
                               0).ctx
           c3 == mv(mv(mv(CtxNew(DefaultWidth, DefaultHeight), 50, 30), 10, 10), 0, 0)
           c4 == HandleKeyPress(c3, {}, StatusDefault,
                                [type |-> "KeyboardPress", key |-> CALIBRATION_KEY,
                                 pressed |-> TRUE]).ctx
       IN  /\ c3.cursor_x = 60 /\ c3.cursor_y = 40
           /\ c4.master_width = 61 /\ c4.master_height = 41
           /\ ~c4.calibration_mode /\ ~c4.remote_mode
    /\ [][(ctx.calibration_mode /\ drv_pc = "batch" /\ batch_left' # batch_left) =>
            IF CALIBRATION_KEY \in ctx'.pressed_keys \ ctx.pressed_keys
            THEN /\ ctx'.master_width = Max(ctx.cursor_x + 1, 1)
                 /\ ctx'.master_height = Max(ctx.cursor_y + 1, 1)
                 /\ ~ctx'.calibration_mode /\ ~ctx'.remote_mode
                 /\ status'.master_width = ctx'.master_width
                 /\ status'.master_height = ctx'.master_height
            ELSE /\ ctx'.calibration_mode
                 /\ ctx'.master_width = ctx.master_width
                 /\ ctx'.master_height = ctx.master_height
                 /\ \/ ctx'.cursor_x = ctx.cursor_x /\ ctx'.cursor_y = ctx.cursor_y
                    \/ \E m \in MouseMoveEvents :
                          /\ ctx'.cursor_x = Max(ctx.cursor_x + m.x, 0)
                          /\ ctx'.cursor_y = Max(ctx.cursor_y + m.y, 0)]_vars

\* C11 witness: calibration confirmed away from the origin, after moves.
C11_Witness ==
    /\ ~ctx.calibration_mode
    /\ ctx.master_width > 1 /\ ctx.master_height > 1
    /\ status.master_width = ctx.master_width

\* C12 (SpecGrabOk: grab and ungrab succeed): after calibration the grab flag
\* equals the mode flag and the devices are grabbed exactly in Remote.  With
\* master_width = 100, Local at (99,50): +2 gives Remote at (101,50), grabbed;
\* -5 then gives x = 96, Local, ungrabbed.
C12_TransitionEffects ==
    /\ LET mv(r, dx) ==
              HandleMouseMove(r.ctx, r.devs, MaxDevices, StatusDefault,
                              [type |-> "MouseMove", x |-> dx, y |-> 0, wheel |-> 0],
                              MaxDevices)
           r0 == [ctx |-> [CtxNew(100, 100) EXCEPT !.calibration_mode = FALSE,
                                                  !.cursor_x = 99, !.cursor_y = 50],
                  devs |-> {}]
           r1 == mv(r0, 2)
           r2 == mv(r1, -5)
       IN  /\ r1.ctx.cursor_x = 101 /\ r1.ctx.cursor_y = 50
           /\ r1.ctx.remote_mode /\ r1.ctx.inputs_grabbed /\ r1.devs = 1..MaxDevices
           /\ r2.ctx.cursor_x = 96
           /\ ~r2.ctx.remote_mode /\ ~r2.ctx.inputs_grabbed /\ r2.devs = {}
    /\ (drv_pc \in {"check", "batch"} /\ ~ctx.calibration_mode) =>
          /\ ctx.inputs_grabbed = ctx.remote_mode
          /\ dev_grabbed = IF ctx.remote_mode THEN 1..num_devices ELSE {}

\* C12 witness: Remote entered with a keyboard and a mouse, both grabbed.
C12_Witness ==
    /\ drv_pc \in {"check", "batch"}
    /\ ctx.remote_mode /\ ctx.inputs_grabbed
    /\ num_devices = MaxDevices /\ dev_grabbed = 1..MaxDevices

\* ------------------------------------------------------ the hub, continued
\* The receive of c's handler would report lag: more than HubCapacity
\* messages were published since the one it reads next.
Lagging(c) == conn[c].pc = "stream" /\ Len(hub) - conn[c].rx_pos + 1 > HubCapacity

\* C13 (lagged subscriber): a handler whose receive reports lag terminates
\* and its client record is removed.
C13_LaggedTerminates ==
    [][\A c \in Conns :
          (Lagging(c) /\ conn'[c] # conn[c]) =>
              conn'[c].pc = "done" /\ ~InClients(clients', c)]_vars

\* The indices (hub positions) of what a handler wrote, in writing order.
SentIdx(c) == [i \in 1..Len(conn[c].sent) |-> conn[c].sent[i].idx]

\* C14 (per-subscriber ordering): what a handler forwarded from the hub is in
\* publication order, each message at most once, each as published.
C14_SubscriberOrdering ==
    \A c \in Conns :
        /\ \A i, j \in 1..Len(conn[c].sent) : i < j => SentIdx(c)[i] < SentIdx(c)[j]
        /\ \A i \in 1..Len(conn[c].sent) :
              /\ SentIdx(c)[i] \in conn[c].sub_pos..Len(hub)
              /\ conn[c].sent[i].kind = hub[SentIdx(c)[i]]

\* C14 witness: a handler forwarded three Actions, with a gap between two
\* of them (the message in between was lost to lag).
C14_Witness ==
    \E c \in Conns :
        /\ Len(conn[c].sent) >= 3
        /\ \A i \in 1..Len(conn[c].sent) : conn[c].sent[i].kind = "Action"
        /\ \E i \in 1..(Len(conn[c].sent) - 1) : SentIdx(c)[i + 1] > SentIdx(c)[i] + 1

\* C15 (Quit is terminal): nothing is published on a hub after a Quit.
C15_QuitTerminal ==
    \A i \in 1..Len(hub) : hub[i] = "Quit" => i = Len(hub)

\* C16 (publishing with no subscribers): an Action published while no
\* subscriber exists is dropped, the driver loop goes on and nothing else
\* changes; send_file on a running service without subscribers returns
\* "No clients connected" and queues nothing, with subscribers it returns Ok
\* and queues the File.
C16_NoSubscribers ==
    [][/\ (/\ drv_pc = "batch" /\ batch_left' # batch_left
           /\ out'.kind = "publish" /\ Receivers(conn) = {})
          => /\ hub' = hub
             /\ drv_pc' \in {"check", "batch"}
             /\ UNCHANGED <<running, net_pc, tx_open, conn, clients, stoppers, api>>
       /\ (api' # api /\ running /\ tx_open) =>
             IF Receivers(conn) = {}
             THEN api'.result = "No clients connected" /\ hub' = hub
             ELSE api'.result = "Ok" /\ hub' = Append(hub, "File")]_vars

\* C16 witness: an Action was dropped and a send_file call was refused, on a
\* running service nobody has connected to.
C16_Witness ==
    /\ running /\ tx_open
    /\ out.kind = "publish"
    /\ api.result = "No clients connected"
    /\ hub = <<>>

\* Packets other than ClientQuit that c's handler wrote after being signalled.
WrittenAfterStop(c) ==
    {i \in (mark[c] + 1)..Len(conn[c].sent) : conn[c].sent[i].kind # "ClientQuit"}

\* C19 (per-client stop): a handler signalled in Streaming by disconnect_client forwards at
\* most one further hub message before its ClientQuit, and while the service
\* runs no handler that was not signalled writes a ClientQuit.
C19_PerClientStop ==
    \A c \in Conns :
        mark[c] >= 0 =>
            /\ Cardinality(WrittenAfterStop(c)) <= 1
            /\ (running /\ \A i \in 1..Len(hub) : hub[i] # "Quit") =>
                  \A d \in Conns \ {c} :
                      mark[d] < 0 =>
                          \A i \in 1..Len(conn[d].sent) : conn[d].sent[i].kind # "ClientQuit"

\* ------------------------------------------------------------- shutdown
\* stop() was called after the g-th start() / the loops of the g-th start()
\* have ended.
GenStopped(g) ==
    \/ g <= Len(orphans)
    \/ g = Len(orphans) + 1 /\ ~running /\ drv_pc # "none"

GenDone(g) ==
    IF g <= Len(orphans)
    THEN orphans[g].drv = "done" /\ orphans[g].net = "done"
    ELSE g = Len(orphans) + 1 /\ drv_pc = "done" /\ net_pc = "done"

\* C17 (graceful shutdown of the loops): every stop() is eventually followed
\* by the end of the driver loop and of the network loop of the start()
\* before it, whatever is called on the service afterwards.
C17_LoopsTerminate ==
    \A g \in 1..(MaxRestarts + 1) : GenStopped(g) ~> GenDone(g)

\* C18 (graceful shutdown of the handlers): after stop() every handler
\* eventually terminates, whatever it was doing, and the client list
\* eventually becomes empty.
C18_HandlersTerminate ==
    (~running /\ drv_pc # "none") ~>
        (/\ \A c \in Conns : conn[c].pc \in {"none", "done"}
         /\ clients = <<>>)

\* ------------------------------------------------------------ handshake
\* C20 (handshake ordering): the first packet a slave transmits on its
\* connection is ServerHello and it transmits exactly one; the master writes
\* nothing on a connection before it has received and recorded that
\* connection's ServerHello.
C20_HandshakeOrdering ==
    /\ slave.stage # "off" =>
          /\ slave.tx # <<>> => slave.tx[1] = "ServerHello"
          /\ Cardinality({i \in 1..Len(slave.tx) : slave.tx[i] = "ServerHello"}) <= 1
          /\ slave.stage \in {"writer", "loop"} => slave.tx # <<>>
          /\ conn[1].helloed => slave.tx # <<>>
    /\ \A c \in Conns : conn[c].sent # <<>> => conn[c].helloed

\* C20 witness: hello sent and recorded, an Action forwarded and answered.
C20_Witness ==
    /\ slave.stage = "loop"
    /\ Len(slave.tx) >= 2
    /\ conn[1].helloed /\ InClients(clients, 1)
    /\ \E i \in 1..Len(conn[1].sent) : conn[1].sent[i].kind = "Action"

\* ------------------------------------------------------- the slave's loop
\* C21 (slave acknowledgement): for every Action packet it handles the slave
\* transmits exactly one Ok, also when decoding or simulating failed; for an
\* Ok, Err or ClientQuit packet it transmits nothing.
C21_SlaveAcknowledgement ==
    \A i \in 1..Len(slave.acts) :
        /\ slave.acts[i].kind = "Action" => slave.acts[i].replies = <<"Ok">>
        /\ slave.acts[i].kind \in {"Ok", "Err", "ClientQuit"} => slave.acts[i].replies = <<>>

\* C21 witness: an Action whose handling failed was acknowledged, and an Err
\* packet was handled.
C21_Witness ==
    /\ \E i \in 1..Len(slave.acts) :
          slave.acts[i].kind = "Action" /\ ~slave.acts[i].ok /\ slave.acts[i].replies = <<"Ok">>
    /\ \E i \in 1..Len(slave.acts) : slave.acts[i].kind = "Err"

\* C22 (file drop outcome): for DropSend followed by Data the slave transmits
\* exactly one reply, Ok if it saved the file and Err if not; send_file on
\* the server succeeds exactly when the reply it read is Ok.
C22_FileDropOutcome ==
    /\ \A i \in 1..Len(slave.acts) :
          (slave.acts[i].kind = "DropSend" /\ slave.acts[i].next = "Data") =>
              /\ Len(slave.acts[i].replies) = 1
              /\ slave.acts[i].replies[1] = IF slave.acts[i].saved THEN "Ok" ELSE "Err"
              /\ slave.acts[i].saved = slave.acts[i].ok
    /\ \A j \in 1..Len(slave.drops) :
          slave.drops[j].success = (slave.drops[j].reply = "Ok")

\* C22 witness: one drop was saved and acknowledged, another failed and was
\* reported, and the server saw both results.
C22_Witness ==
    /\ \E j \in 1..Len(slave.drops) : slave.drops[j].success
    /\ \E j \in 1..Len(slave.drops) : ~slave.drops[j].success /\ slave.drops[j].reply = "Err"

\* ------------------------------------------------------ per-client entries
\* C23 (as claimed): once the handler task of a client has ended, for whatever
\* reason, neither the connected-client list nor the stop-notifier mapping
\* holds an entry for that client's identifier.
C23_StaleEntryFreedom ==
    \A c \in Conns :
        conn[c].pc = "done" => (c \notin stoppers /\ ~InClients(clients, c))

\* ---------------------------------------------------------- event routing
\* C24 (mouse-move routing): whenever the loop is about to handle an event
\* after calibration, handling any mouse move (with any outcome of the grab or
\* ungrab it may call) publishes it, as the Action with the event's own dx, dy
\* and wheel, exactly when the mode after it is Remote, so the move that
\* enters Remote is published and the move that returns to Local is not; and
\* a move routed in Remote is not replayed on the local writer.
C24_MouseMoveRouting ==
    (drv_pc = "batch" /\ ~ctx.calibration_mode) =>
        \A ev \in MouseMoveEvents : \A k \in SyscallOutcomes(ctx, ev, num_devices) :
            LET r == Dispatch(TrackKeys(ctx, ev), dev_grabbed, num_devices, status, ev, k)
            IN  /\ (r.out.kind = "publish") <=> r.ctx.remote_mode
                /\ r.out.kind = "publish" => (r.out.type = "MouseMove" /\ r.out.faithful)
                /\ (~ctx.remote_mode /\ r.ctx.remote_mode) => r.out.kind = "publish"
                /\ (ctx.remote_mode /\ ~r.ctx.remote_mode) => r.out.kind # "publish"
                /\ r.ctx.remote_mode => r.out.kind # "local"

\* C24 witness: after calibration the cursor went to the remote side and came
\* back with the devices still grabbed (the ungrab failed); the last move was
\* replayed locally and not published.
C24_Witness ==
    /\ ~ctx.calibration_mode /\ ~ctx.remote_mode /\ ctx.inputs_grabbed
    /\ out.kind = "local" /\ out.type = "MouseMove"

\* What the routing by the mode flag alone does with a click or key event:
\* Remote publishes its Action and replays nothing, Local with the devices
\* grabbed replays it and publishes nothing, Local without grab does neither.
RoutedByMode(c, ev, o) ==
    /\ c.remote_mode => (o.kind = "publish" /\ o.type = ev.type /\ o.faithful)
    /\ (~c.remote_mode /\ c.inputs_grabbed) => (o.kind = "local" /\ o.type = ev.type)
    /\ (~c.remote_mode /\ ~c.inputs_grabbed) => o.kind = "none"

\* C25 (as claimed): whenever the loop is about to handle an event outside
\* Calibration, every mouse-click or key event is routed by the current mode
\* flag only: published once in Remote, replayed once in Local with grab,
\* neither in Local without grab.
C25_ClickKeyRouting ==
    (drv_pc = "batch" /\ ~ctx.calibration_mode) =>
        \A ev \in MouseClickEvents \cup KeyboardPressEvents :
            RoutedByMode(ctx, ev,
                HandleEventResult(ctx, dev_grabbed, num_devices, status, ev, num_devices).out)

\* C25 (amended): the same for every mouse-click or key event except the
\* failsafe press (Q pressed while LeftCtrl and LeftAlt are held), which is
\* neither published nor replayed.
C25_ClickKeyRoutingAmended ==
    (drv_pc = "batch" /\ ~ctx.calibration_mode) =>
        \A ev \in MouseClickEvents \cup KeyboardPressEvents :
            LET r == HandleEventResult(ctx, dev_grabbed, num_devices, status, ev, num_devices)
            IN  /\ ~IsFailsafe(TrackKeys(ctx, ev), ev) => RoutedByMode(ctx, ev, r.out)
                /\ IsFailsafe(TrackKeys(ctx, ev), ev) => r.out.kind = "none"

\* C25 witness: in Remote with the devices not grabbed (the grab failed) a
\* click was published.
C25_Witness ==
    /\ ~ctx.calibration_mode /\ ctx.remote_mode /\ ~ctx.inputs_grabbed
    /\ out.kind = "publish" /\ out.type = "MouseClick" /\ out.faithful

\* C26 (calibration is observe-only): whenever the loop is about to handle an
\* event while calibration_mode is true, no event of any kind causes a call
\* of the local writer, a publication, or a grab of the devices.
C26_CalibrationObserveOnly ==
    (drv_pc = "batch" /\ ctx.calibration_mode) =>
        /\ dev_grabbed = {} /\ ~ctx.inputs_grabbed
        /\ \A ev \in DriverEvents : \A k \in 0..num_devices :
              LET r == HandleEventResult(ctx, dev_grabbed, num_devices, status, ev, k)
              IN  /\ r.out.kind = "none"
                  /\ r.devs = {}
                  /\ ~r.ctx.inputs_grabbed

\* C26 witness: still in Calibration after moves and key presses were handled,
\* with nothing published, replayed or grabbed.
C26_Witness ==
    /\ drv_pc = "batch" /\ ctx.calibration_mode
    /\ ctx.cursor_x > 0 /\ ctx.pressed_keys # {}
    /\ out.kind = "none" /\ dev_grabbed = {}

\* The fields a click or a key event leaves alone.
ModeFields(c) ==
    <<c.cursor_x, c.cursor_y, c.remote_mode, c.calibration_mode, c.master_width,
      c.master_height, c.inputs_grabbed>>

\* C27 (clicks and key presses never change mode): handling a mouse click or
\* a key event other than the calibration-confirm press leaves cursor_x,
\* cursor_y, remote_mode, calibration_mode, master_width, master_height and
\* inputs_grabbed (and the grabs themselves) unchanged.
C27_ClicksKeysKeepMode ==
    drv_pc = "batch" =>
        \A ev \in MouseClickEvents \cup KeyboardPressEvents : \A k \in 0..num_devices :
            ~(ctx.calibration_mode /\ ev.type = "KeyboardPress"
                /\ ev.key = CALIBRATION_KEY /\ ev.pressed) =>
                LET r == HandleEventResult(ctx, dev_grabbed, num_devices, status, ev, k)
                IN  ModeFields(r.ctx) = ModeFields(ctx) /\ r.devs = dev_grabbed

\* C27 witness: in Remote with the devices grabbed, a key event was the last
\* event handled.
C27_Witness ==
    /\ ~ctx.calibration_mode /\ ctx.remote_mode /\ ctx.inputs_grabbed
    /\ ctx.cursor_x >= ctx.master_width
    /\ out.kind = "publish" /\ out.type = "KeyboardPress"

\* C28 (grab failure is non-fatal): when the move that enters Remote finds the
\* grab failing, inputs_grabbed stays false, remote_mode becomes true,
\* handle_event returns true and the move is published; when the move that
\* enters Local finds the ungrab failing, inputs_grabbed stays true and the
\* mode becomes Local; and in Remote without grab every later event that is
\* routed in Remote is published.
C28_GrabFailureNonFatal ==
    (drv_pc = "batch" /\ ~ctx.calibration_mode) =>
        /\ \A ev \in MouseMoveEvents : \A k \in 0..(num_devices - 1) :
              LET r == HandleEventResult(ctx, dev_grabbed, num_devices, status, ev, k)
                  to_remote == NewRemoteMode(ClampCursor(ctx, ev))
              IN  /\ (~ctx.remote_mode /\ ~ctx.inputs_grabbed /\ to_remote) =>
                        /\ ~r.ctx.inputs_grabbed /\ r.ctx.remote_mode
                        /\ r.cont /\ ~r.stopped
                        /\ r.out.kind = "publish"
                  /\ (ctx.remote_mode /\ ctx.inputs_grabbed /\ ~to_remote) =>
                        /\ r.ctx.inputs_grabbed /\ ~r.ctx.remote_mode
                        /\ r.cont /\ ~r.stopped
        /\ (ctx.remote_mode /\ ~ctx.inputs_grabbed) =>
              \A ev \in DriverEvents : \A k \in SyscallOutcomes(ctx, ev, num_devices) :
                  LET r == HandleEventResult(ctx, dev_grabbed, num_devices, status, ev, k)
                  IN  (r.cont /\ r.ctx.remote_mode) => r.out.kind = "publish"

\* C28 witness: the grab failed on entering Remote and a later key event was
\* published.
C28_Witness ==
    /\ running /\ drv_pc # "done"
    /\ ~ctx.calibration_mode /\ ctx.remote_mode /\ ~ctx.inputs_grabbed
    /\ out.kind = "publish" /\ out.type = "KeyboardPress"

\* C29 (failsafe exactness): handle_event clears the running flag exactly for
\* a press of keycode 16 while 29 and 56 are in the pressed set; the pressed
\* set is kept as the keys whose latest event was a press (a press adds the
\* key, a release removes it, a release of an absent key and every other
\* event change nothing); once the failsafe has fired the three keys are in
\* the set.
C29_FailsafeExactness ==
    /\ drv_pc = "batch" =>
          \A ev \in DriverEvents : \A k \in SyscallOutcomes(ctx, ev, num_devices) :
              LET r == HandleEventResult(ctx, dev_grabbed, num_devices, status, ev, k)
              IN  /\ r.stopped <=>
                        (ev.type = "KeyboardPress" /\ ev.pressed /\ ev.key = FAILSAFE_KEY_Q
                           /\ FAILSAFE_KEY_CTRL \in ctx.pressed_keys
                           /\ FAILSAFE_KEY_ALT \in ctx.pressed_keys)
                  /\ r.cont = ~r.stopped
                  /\ ev.type = "KeyboardPress" =>
                        /\ (ev.key \in r.ctx.pressed_keys) <=> ev.pressed
                        /\ r.ctx.pressed_keys \ {ev.key} = ctx.pressed_keys \ {ev.key}
                  /\ ev.type # "KeyboardPress" => r.ctx.pressed_keys = ctx.pressed_keys
    /\ failsafe_fired =>
          {FAILSAFE_KEY_CTRL, FAILSAFE_KEY_ALT, FAILSAFE_KEY_Q} \subseteq ctx.pressed_keys

\* C29 witness: Q, LeftCtrl and LeftAlt are all held (Q was pressed before the
\* other two were both down) and the loop is still running.
C29_Witness ==
    /\ running /\ ~failsafe_fired /\ drv_pc = "batch"
    /\ {FAILSAFE_KEY_CTRL, FAILSAFE_KEY_ALT, FAILSAFE_KEY_Q} \subseteq ctx.pressed_keys

C35_ModeMatchesCursor ==
    (drv_pc # "none" /\ ~ctx.calibration_mode) =>
        (ctx.remote_mode <=> ctx.cursor_x >= ctx.master_width)

\* C35 witness: the cursor stands on the first remote column, the mode is
\* Remote and the grab failed.
C35_Witness ==
    /\ drv_pc # "none" /\ ~ctx.calibration_mode
    /\ ctx.cursor_x = ctx.master_width /\ ctx.remote_mode /\ ~ctx.inputs_grabbed
    /\ num_devices > 0

\* C36 (as claimed): while the driver loop runs with one or more devices,
\* inputs_grabbed = false means that no physical device is grabbed.
C36_GrabFlagNeverUnderReports ==
    (drv_pc \in {"check", "batch"} /\ num_devices >= 1 /\ ~ctx.inputs_grabbed) =>
        dev_grabbed = {}

\* C40 (as claimed): once stop() has returned (the flag is false and it was
\* not the failsafe that cleared it), MasterStatus shows neither running nor
\* remote_mode.
C40_StoppedStatusStable ==
    (drv_pc # "none" /\ ~running /\ ~failsafe_fired) =>
        (~status.running /\ ~status.remote_mode)

\* ------------------------------------------------ start() after stop(), continued
\* The loops that have been spawned and have not ended.
DriverLoopsAlive ==
    (IF drv_pc \in {"check", "batch"} THEN 1 ELSE 0)
      + Cardinality({g \in 1..Len(orphans) : orphans[g].drv # "done"})

AcceptLoopsAlive ==
    (IF net_pc \in {"bind", "head", "accept"} THEN 1 ELSE 0)
      + Cardinality({g \in 1..Len(orphans) : orphans[g].net # "done"})

\* C37 (as claimed): for every interleaving of start() and stop() at most one
\* driver loop and at most one accept loop are alive, and the listener that
\* accepts new clients belongs to the latest start(), whose sender send_file
\* uses.
C37_SingleInstance ==
    /\ DriverLoopsAlive <= 1
    /\ AcceptLoopsAlive <= 1
    /\ \A g \in 1..Len(orphans) : ~Listening(orphans[g].net)

\* ----------------------------------------------------------- SlaveService
\* C38 (as claimed): whenever the slave task has ended on its own,
\* is_running() is false, and a start() that follows is accepted.
C38_RunningFollowsTask ==
    (svc.stage = "on" /\ svc.task = "done" /\ svc.own) =>
        (~svc.flag /\ svc.result # "Slave is already running")

\* C39 (as claimed): in every state of SlaveStatus, connecting and connected
\* are not both true and connected implies running.
C39_StatusConsistency ==
    svc.stage = "on" =>
        /\ ~(svc.st.connecting /\ svc.st.connected)
        /\ svc.st.connected => svc.st.running

\* ------------------------------------------- one connection of the master
\* C31 (as claimed): on a connection at most one forwarded Action is without
\* a consumed reply at any time.
C31_ActionLockStep ==
    wire.pc # "off" => wire.unacked <= 1

\* C32 (as claimed): a failed read on the connection (the acknowledgement
\* read included) terminates the handler, which removes its client record.
C32_TransportFailureTerminates ==
    (wire.pc # "off" /\ wire.last = "fail") => (wire.pc = "done" /\ ~wire.listed)

\* C33 (as claimed): after an Err packet was read as the reply to an Action
\* or to a file drop, the handler is still in its streaming loop and the
\* client record is still listed.
C33_ErrPacketKeepsConnection ==
    (wire.pc # "off" /\ wire.last = "Err") => (wire.pc = "select" /\ wire.listed)

\* C34 (one drop at a time): what follows a DropSend on the connection is one
\* Data packet, and the next packet after that (whatever it is) is written
\* only after the reply to the drop was read; a Data packet is written only
\* directly after a DropSend.
C34_OneDropAtATime ==
    wire.pc # "off" =>
        \A i \in 1..Len(wire.sent) :
            /\ wire.sent[i].kind = "DropSend" =>
                  /\ i + 1 <= Len(wire.sent) =>
                        (wire.sent[i + 1].kind = "Data"
                           /\ wire.sent[i + 1].reads = wire.sent[i].reads)
                  /\ i + 2 <= Len(wire.sent) =>
                        wire.sent[i + 2].reads > wire.sent[i + 1].reads
            /\ wire.sent[i].kind = "Data" => (i > 1 /\ wire.sent[i - 1].kind = "DropSend")

\* C34 witness: a drop was refused by the slave (Err) after another drop was
\* acknowledged and an Action forwarded.
C34_Witness ==
    /\ wire.pc = "done" /\ wire.last = "Err" /\ wire.after = "File"
    /\ \E i \in 1..Len(wire.sent) : wire.sent[i].kind = "Action"
    /\ Cardinality({i \in 1..Len(wire.sent) : wire.sent[i].kind = "DropSend"}) = 2

=============================================================================
